---- MODULE Spec2Model ----
(***************************************************************************)
(* Ghost Manager: the escalation resolver (ghost_simplifier) that turns    *)
(* the synthesized compliance report into a three-field verdict.           *)
(*                                                                         *)
(* The resolver's rules are the text of simplifier_instruction in          *)
(* src/agents/coordinator_agent.py.  Texts are sequences of one-character  *)
(* strings so that substring search and case folding are computed.         *)
(***************************************************************************)
EXTENDS Integers, Sequences, FiniteSets, TLC

VARIABLES
    synthesized_report,   \* session key read by ghost_simplifier
    simplified_report,    \* session key written by ghost_simplifier
    arrival,              \* which domain coordinator of regulations_gatherer ended first
    phase                 \* "start", "synthesized" (report stored), "resolved"

VARIABLES
    agent_state,          \* each agent of ghost_coordinator: "idle", "running", "done"
    state,                \* session state: the output keys of the gather stage
    arrived,              \* per domain, the specialists whose results await the summary agent, in the order they ended
    merged,               \* per domain, the report of its summary agent
    aborted               \* an exception left an agent and ended the run

VARIABLES
    tool_call             \* the last call of a specialist tool and how it ended

VARIABLES
    session_state,        \* the state of the session held by the session service
    update,               \* the call of update_interaction_history in progress
    now                   \* the last reading of the clock, in seconds

VARIABLES
    caller                \* per caller, its call of atomic_update_session

VARIABLES
    call_pc,              \* where call_agent_async is
    emitted,              \* the agents whose last event the runner has yielded
    final_response_text,  \* local variable of call_agent_async
    agent_name,           \* local variable of call_agent_async
    call_result           \* what call_agent_async returned

resolverVars == <<synthesized_report, simplified_report, arrival, phase>>
pipelineVars == <<agent_state, state, arrived, merged, aborted>>
toolVars == <<tool_call>>
historyVars == <<session_state, update, now>>
callVars == <<call_pc, emitted, final_response_text, agent_name, call_result>>
updateVars == <<caller>>

\* the variables a run of ghost_coordinator leaves alone
besidesPipeline == <<toolVars, historyVars, callVars, updateVars>>

vars == <<resolverVars, pipelineVars, besidesPipeline>>

----------------------------------------------------------------------------
(* Bounds of the explored inputs *)

MaxIssues == 2        \* most issues in a report, both domains together
MaxSeverity == 2      \* severity ranks 1..MaxSeverity, larger is more severe
MaxClock == 2         \* readings of time.time() are 1..MaxClock
MaxHistory == 2       \* calls of update_interaction_history begin below this length
max_retries == 5      \* default of atomic_update_session

----------------------------------------------------------------------------
(* Text *)

\* str.lower() on the letters: each upper-case letter and its lower-case one
ToLower ==
    [A |-> "a", B |-> "b", C |-> "c", D |-> "d", E |-> "e", F |-> "f", G |-> "g",
     H |-> "h", I |-> "i", J |-> "j", K |-> "k", L |-> "l", M |-> "m", N |-> "n",
     O |-> "o", P |-> "p", Q |-> "q", R |-> "r", S |-> "s", T |-> "t", U |-> "u",
     V |-> "v", W |-> "w", X |-> "x", Y |-> "y", Z |-> "z"]

\* str.lower() of one character
LowerChar(c) == IF c \in DOMAIN ToLower THEN ToLower[c] ELSE c

\* needle occurs in lower(hay) as a contiguous substring
OccursFolded(needle, hay) ==
    \E i \in 1..(Len(hay) - Len(needle) + 1) :
        \A j \in 1..Len(needle) : LowerChar(hay[i + j - 1]) = needle[j]

SeverityTriggers ==
    { <<"v","i","o","l","a","t","i","o","n">>,
      <<"u","n","a","u","t","h","o","r","i","z","e","d">>,
      <<"e","x","p","o","s","e","d">>,
      <<"s","s","n">>,
      <<"s","o","c","i","a","l"," ","s","e","c","u","r","i","t","y">>,
      <<"p","a","t","i","e","n","t"," ","n","a","m","e">>,
      <<"h","o","s","p","i","t","a","l","i","z","a","t","i","o","n">>,
      <<"d","e","a","t","h">>,
      <<"s","e","r","i","o","u","s"," ","a","d","v","e","r","s","e">>,
      <<"i","m","m","e","d","i","a","t","e"," ","r","e","p","o","r","t">>,
      <<"b","r","e","a","c","h">>,
      <<"l","e","a","k">> }

\* some severity trigger occurs in the text, case-insensitively
HasTrigger(t) == \E trig \in SeverityTriggers : OccursFolded(trig, t)

\* Texts used to build reports
TxtBreach == <<"d","a","t","a"," ","b","r","e","a","c","h">>
TxtBreachUpper == <<"D","a","t","a"," ","B","R","E","A","C","H">>
TxtSsnUpper == <<"S","S","N">>
TxtViolationWord == <<"V","I","O","L","A","T","I","O","N">>
TxtBenign == <<"a","u","d","i","t"," ","l","o","g"," ","g","a","p">>
TxtNearMiss == <<"b","r","e","a"," ","c","h">>
TxtAccess == <<"a","c","c","e","s","s">>
TxtRecommend == <<"r","o","t","a","t","e"," ","k","e","y","s">>
TxtRecommendTwo ==
    << "r", "o", "t", "a", "t", "e", " ", "k", "e", "y", "s", " ", "a", "n", "d",
       " ", "t", "r", "a", "i", "n", " ", "s", "t", "a", "f", "f" >>
\* the issue texts of examples 2 and 3
TxtPatientName ==
    << "p", "a", "t", "i", "e", "n", "t", " ", "n", "a", "m", "e", ":", " ",
       "J", "a", "n", "e", " ", "D", "o", "e" >>
TxtHospitalization ==
    << "a", "d", "v", "e", "r", "s", "e", " ", "e", "v", "e", "n", "t", " ",
       "r", "e", "p", "o", "r", "t", "e", "d", ",", " ",
       "h", "o", "s", "p", "i", "t", "a", "l", "i", "z", "a", "t", "i", "o", "n" >>

----------------------------------------------------------------------------
(* Shapes of the synthesized report *)

\* an issue of a domain report: type, severity, explanation
Issue(ty, sev, expl) ==
    [tag |-> "issue", type |-> ty, severity |-> sev, explanation |-> expl]

\* an issue entry that is not a mapping
TextEntry(t) == [tag |-> "text", text |-> t]

\* hipaa / fda: summary and list of issues
DomainReport(summary, items) ==
    [tag |-> "report", summary |-> summary,
     issues |-> [tag |-> "list", items |-> items]]

\* raw_details: the two domain reports as-is
RawDetails(h, f) == [tag |-> "map", hipaa_report |-> h, fda_report |-> f]
RawText(t) == [tag |-> "text", text |-> t]
RawList(items) == [tag |-> "list", items |-> items]

\* the keys of synthesized_report the resolver reads
RecognizedFields == {"status", "hipaa", "fda", "recommendations", "raw_details"}

\* a mapping given by optional values: each argument is {} (key absent) or {v}
ReportFields(so, ho, fo, ro, wo) ==
    LET D == (IF so # {} THEN {"status"} ELSE {})
             \cup (IF ho # {} THEN {"hipaa"} ELSE {})
             \cup (IF fo # {} THEN {"fda"} ELSE {})
             \cup (IF ro # {} THEN {"recommendations"} ELSE {})
             \cup (IF wo # {} THEN {"raw_details"} ELSE {})
    IN [k \in D |->
          CASE k = "status" -> CHOOSE v \in so : TRUE
            [] k = "hipaa" -> CHOOSE v \in ho : TRUE
            [] k = "fda" -> CHOOSE v \in fo : TRUE
            [] k = "recommendations" -> CHOOSE v \in ro : TRUE
            [] k = "raw_details" -> CHOOSE v \in wo : TRUE]

Mapping(fields) == [tag |-> "map", fields |-> fields]
Absent == [tag |-> "absent"]
NotAMappingText(t) == [tag |-> "text", text |-> t]
NotAMappingList(items) == [tag |-> "list", items |-> items]

----------------------------------------------------------------------------
(* Verdicts *)

\* a reason or suggestion that names no item of the report
NoItem == [tag |-> "none"]

Reason(kind, text, domain, item) ==
    [kind |-> kind, text |-> text, domain |-> domain, item |-> item]

Suggestion(text, item) == [text |-> text, addresses |-> item]

Verdict(status, reason, suggestions) ==
    [status |-> status, reason |-> reason, suggestions |-> suggestions]

\* EXAMPLES 1: the verdict for status OK
OkVerdict ==
    Verdict("OK",
            Reason("fixed", "No HIPAA or FDA issues detected in the synthesized report.",
                   "", NoItem),
            << Suggestion("No action required.", NoItem) >>)

\* the fallback with its suggestion reworded
FallbackParaphrased ==
    Verdict("WARNING",
            Reason("fixed",
                   "Synthesized report missing or malformed; cannot confidently determine compliance.",
                   "", NoItem),
            << Suggestion("Check that the synthesizer produced the synthesized report and re-run the coordinator.",
                          NoItem) >>)

\* ROBUSTNESS REQUIREMENTS: the verdict for a missing or malformed report
FallbackVerdict ==
    Verdict("WARNING",
            Reason("fixed",
                   "Synthesized report missing or malformed; cannot confidently determine compliance.",
                   "", NoItem),
            << Suggestion("Check that the synthesizer produced 'synthesized_report' and re-run the coordinator.",
                          NoItem) >>)

----------------------------------------------------------------------------
(* Step 1: the malformed-input guard *)

\* a guard that only looks for the empty mapping
HasNoFieldAtAll(x) == x.tag = "map" /\ DOMAIN x.fields = {}

\* a mapping none of whose keys is a key of the synthesized report
HasNoRecognizedField(x) ==
    x.tag = "map" /\ (DOMAIN x.fields) \cap RecognizedFields = {}

\* synthesized_report is missing or malformed (absent or unparsable)
IsMalformed(x) ==
    \/ x.tag = "absent"
    \/ x.tag # "map"
    \/ HasNoRecognizedField(x)

----------------------------------------------------------------------------
(* Reading the fields of a mapping, tolerating absent and invalid ones *)

HasStatus(f, s) == "status" \in DOMAIN f /\ f.status = s

\* all the texts inside a value of the report: a text, the entries of a list,
\* the summary and the issues of a domain report, the type and the
\* explanation of an issue, the two reports of raw_details
RECURSIVE FlattenRaw(_)
FlattenRaw(n) ==
    CASE n.tag = "text" -> {n.text}
      [] n.tag = "list" -> UNION {FlattenRaw(n.items[i]) : i \in 1..Len(n.items)}
      [] n.tag = "issue" -> {n.type, n.explanation}
      [] n.tag = "report" -> {n.summary} \cup FlattenRaw(n.issues)
      [] n.tag = "map" -> FlattenRaw(n.hipaa_report) \cup FlattenRaw(n.fda_report)
      [] OTHER -> {}

\* a reading that takes a domain of any other shape as one issue entry
DomainIssuesAnyShape(f, key) ==
    IF key \in DOMAIN f
    THEN IF f[key].tag = "report" /\ f[key].issues.tag = "list"
         THEN f[key].issues.items ELSE << f[key] >>
    ELSE <<>>

\* hipaa.issues / fda.issues: the entries of the issues list, mappings and
\* texts alike; no entries when there is no such list
DomainIssues(f, key) ==
    IF key \in DOMAIN f /\ f[key].tag = "report" /\ f[key].issues.tag = "list"
    THEN f[key].issues.items
    ELSE <<>>

\* the summary of hipaa / fda
DomainSummary(f, key) ==
    IF key \in DOMAIN f /\ f[key].tag = "report" THEN f[key].summary ELSE <<>>

\* the top-level recommendations list
Recommendations(f) ==
    IF "recommendations" \in DOMAIN f THEN f.recommendations ELSE <<>>

\* a severity trigger occurs in the issue's text
IssueHasTrigger(i) == \E t \in FlattenRaw(i) : HasTrigger(t)

\* the severities an issue can be read to have: the one a mapping states. An
\* entry quoted as a text states none and no rule ranks it, so it can be read
\* as any severity, or as lower than every stated one (0)
SeveritiesOf(i) == IF i.tag = "issue" THEN {i.severity} ELSE 0..MaxSeverity

\* some issue text of the domain contains a severity trigger
DomainHasTriggerInIssues(f, key) ==
    \E i \in 1..Len(DomainIssues(f, key)) : IssueHasTrigger(DomainIssues(f, key)[i])

\* hipaa / fda contains a textual indicator: a severity trigger occurs in any
\* issue text or summary of the domain, whatever its shape
DomainHasTrigger(f, key) ==
    key \in DOMAIN f /\ \E t \in FlattenRaw(f[key]) : HasTrigger(t)

\* a severity trigger is found in raw_details
RawHasTrigger(f) ==
    "raw_details" \in DOMAIN f /\ \E t \in FlattenRaw(f.raw_details) : HasTrigger(t)

----------------------------------------------------------------------------
(* Step 2: DECISION PRIORITY *)

\* status missing: derive the status from the sub-reports
DeriveStatus(f) ==
    IF DomainHasTrigger(f, "hipaa") \/ DomainHasTrigger(f, "fda") THEN "VIOLATION"
    ELSE IF Len(DomainIssues(f, "hipaa")) > 0 \/ Len(DomainIssues(f, "fda")) > 0
         THEN "WARNING"
    ELSE "OK"

\* 3. derive from hipaa.issues and fda.issues: the issue texts, then the lists
DeriveFromIssues(f) ==
    IF DomainHasTriggerInIssues(f, "hipaa") \/ DomainHasTriggerInIssues(f, "fda")
    THEN "VIOLATION"
    ELSE IF Len(DomainIssues(f, "hipaa")) > 0 \/ Len(DomainIssues(f, "fda")) > 0
         THEN "WARNING"
    ELSE "OK"

\* INPUT, beside DECISION PRIORITY 3: a status that exists is the primary
\* signal, so a report that says OK resolves to OK, as in example 1; a
\* missing status is derived from the sub-reports
InputPassage(f) ==
    IF "status" \notin DOMAIN f THEN { DeriveStatus(f) }
    ELSE IF HasStatus(f, "OK") THEN { "OK" }
    ELSE {}

\* what is left after rules 1 and 2: rule 3, and what the INPUT passage says
\* of the same report
DerivedStatuses(f) == { DeriveFromIssues(f) } \cup InputPassage(f)

\* a resolution that trusts whatever status the report carries
ResolveStatusPassThrough(f) ==
    IF "status" \in DOMAIN f THEN { f.status } ELSE DerivedStatuses(f)

\* a resolution that wants a trigger in raw_details to confirm a VIOLATION
ResolveStatusConfirmViolation(f) ==
    IF HasStatus(f, "VIOLATION") \/ HasStatus(f, "WARNING")
    THEN { IF RawHasTrigger(f) THEN "VIOLATION" ELSE "WARNING" }
    ELSE DerivedStatuses(f)

\* a resolution that escalates a WARNING on a trigger anywhere in the report
ResolveStatusScanIssues(f) ==
    IF HasStatus(f, "VIOLATION") THEN { "VIOLATION" }
    ELSE IF HasStatus(f, "WARNING")
         THEN { IF RawHasTrigger(f) \/ DomainHasTrigger(f, "hipaa") \/ DomainHasTrigger(f, "fda")
                THEN "VIOLATION" ELSE "WARNING" }
    ELSE DerivedStatuses(f)

\* a resolution that never reads the status of the report
ResolveStatusIgnoreInput(f) ==
    DerivedStatuses([k \in (DOMAIN f) \ {"status"} |-> f[k]])

\* the statuses the instruction gives: 1. VIOLATION; 2. else WARNING unless
\* raw_details escalates; 3. else derived from the issues. Where the INPUT
\* passage speaks of the same report (status OK, status missing) and gives
\* another status, the instruction gives both
ResolveStatus(f) ==
    IF HasStatus(f, "VIOLATION") THEN { "VIOLATION" }
    ELSE IF HasStatus(f, "WARNING")
         THEN { IF RawHasTrigger(f) THEN "VIOLATION" ELSE "WARNING" }
    ELSE DerivedStatuses(f)

----------------------------------------------------------------------------
(* Step 3: EXTRA RULES FOR CHOOSING THE PRIMARY REASON *)

\* the issues of both domains, each with its domain, HIPAA issues first
Candidates(f) ==
    [i \in 1..Len(DomainIssues(f, "hipaa")) |->
        [domain |-> "HIPAA", issue |-> DomainIssues(f, "hipaa")[i],
         trigger |-> IssueHasTrigger(DomainIssues(f, "hipaa")[i])]]
    \o
    [i \in 1..Len(DomainIssues(f, "fda")) |->
        [domain |-> "FDA", issue |-> DomainIssues(f, "fda")[i],
         trigger |-> IssueHasTrigger(DomainIssues(f, "fda")[i])]]

\* the readings of the candidates C: each candidate with one of the
\* severities its issue can be read to have
RECURSIVE Readings(_)
Readings(C) ==
    IF C = <<>> THEN { <<>> }
    ELSE { << [domain |-> Head(C).domain, issue |-> Head(C).issue,
               trigger |-> Head(C).trigger, severity |-> s] >> \o rest :
             s \in SeveritiesOf(Head(C).issue), rest \in Readings(Tail(C)) }

\* a ranking by the severity alone
OutranksBySeverity(a, b) == a.severity > b.severity

\* candidate a is to be picked rather than b: it contains a trigger and b does
\* not, or both or neither do and a is the more severe
Outranks(a, b) ==
    \/ a.trigger /\ ~b.trigger
    \/ a.trigger = b.trigger /\ a.severity > b.severity

\* a pick that, among equals, takes the domain whose report came first
PickPrimaryArrival(C) ==
    LET Top(k) == \A j \in 1..Len(C) : ~Outranks(C[j], C[k])
        First(d) == CHOOSE k \in 1..Len(C) :
                        Top(k) /\ C[k].domain = d
                        /\ \A j \in 1..(k - 1) : ~(Top(j) /\ C[j].domain = d)
        Has(d) == \E k \in 1..Len(C) : Top(k) /\ C[k].domain = d
        preferred == IF arrival = "fda_first" THEN "FDA" ELSE "HIPAA"
        other == IF arrival = "fda_first" THEN "HIPAA" ELSE "FDA"
    IN IF Has(preferred) THEN C[First(preferred)] ELSE C[First(other)]

\* the picked issue: the highest-ranked one, HIPAA before FDA if equal
PickPrimary(C) ==
    C[CHOOSE k \in 1..Len(C) :
        /\ \A j \in 1..Len(C) : ~Outranks(C[j], C[k])
        /\ \A j \in 1..(k - 1) : \E m \in 1..Len(C) : Outranks(C[m], C[j])]

\* some candidate issue contains a severity trigger
AnyTrigger(C) == \E k \in 1..Len(C) : C[k].trigger

\* the reason mentions the domain and the flagged item
IssueReason(c) == Reason("issue", "", c.domain, c.issue)

\* the top recommendation, summarized as the reason
RecommendationReason(recs) ==
    Reason("recommendation", "", "", [tag |-> "text", text |-> recs[1]])

\* the top recommendation as a reason, if a recommendations list was supplied
TopRecommendation(recs) ==
    IF Len(recs) > 0 THEN { RecommendationReason(recs) } ELSE {}

\* a selection that turns to the recommendations before the issues
ReasonsFromRecommendationFirst(C, recs) ==
    IF Len(recs) > 0 THEN { RecommendationReason(recs) }
    ELSE IF Len(C) > 0 THEN { IssueReason(PickPrimary(C)) }
    ELSE { Reason("unspecified", "", "", NoItem) }

\* the reasons the instruction allows for the candidates C, in one reading of
\* their severities, and the recommendations recs.
\*  - Multiple issues: the three rules of "If multiple issues exist" stand
\*    side by side, with no order among them. The first two name the issue
\*    containing the highest-severity trigger, HIPAA before FDA if equal
\*    (examples 2 and 3); without a trigger they rank the issues in no way,
\*    so any of them. The third names the top recommendation of a supplied
\*    list if it references a single action, which is left to the agent's
\*    judgement of the text, and states no condition on triggers: the
\*    recommendation is allowed beside the issue.
\*  - One issue: it is the primary flagged item, which the reason mentions
\*    (OUTPUT FORMAT).
\*  - No issue: the instruction names no reason; the top recommendation or a
\*    text the rules do not fix.
ReasonsFrom(C, recs) ==
    IF Len(C) > 1
    THEN (IF AnyTrigger(C) THEN { IssueReason(PickPrimary(C)) }
          ELSE { IssueReason(C[k]) : k \in 1..Len(C) })
         \cup TopRecommendation(recs)
    ELSE IF Len(C) = 1 THEN { IssueReason(C[1]) }
    ELSE { Reason("unspecified", "", "", NoItem) } \cup TopRecommendation(recs)

\* the reasons the rules allow for the report: one for each reading of its
\* candidates
PrimaryReasons(f) ==
    UNION { UNION { ReasonsFrom(R, Recommendations(f)) : R \in Readings(C) } :
              C \in { Candidates(f) } }

----------------------------------------------------------------------------
(* Steps 4 and 5: the verdict *)

\* one suggestion, addressing the reason
WithSuggestion(status, reason) ==
    Verdict(status, reason, << Suggestion("", reason.item) >>)

\* the verdicts with the status, for a report that is a mapping with a
\* recognized key
VerdictsFor(status, f) ==
    IF status = "OK" THEN { OkVerdict }
    ELSE { WithSuggestion(status, r) : r \in PrimaryReasons(f) }

\* a resolver that looks for triggers before it checks the shape
ResolveScanFirst(x) ==
    IF x.tag = "text" /\ HasTrigger(x.text)
    THEN { WithSuggestion("VIOLATION", Reason("unspecified", "", "", NoItem)) }
    ELSE IF IsMalformed(x) THEN { FallbackVerdict }
    ELSE UNION { VerdictsFor(st, x.fields) : st \in ResolveStatus(x.fields) }

\* ghost_simplifier applied to the value of synthesized_report: the verdicts
\* the instruction allows. First the robustness requirement; then a verdict
\* for each status the instruction gives, with each reason the rules allow
Resolve(x) ==
    IF IsMalformed(x) THEN { FallbackVerdict }
    ELSE UNION { VerdictsFor(st, x.fields) : st \in ResolveStatus(x.fields) }

-----
(* Inputs *)

IssueSet ==
    { Issue(TxtAccess, 1, TxtBenign),
      Issue(TxtAccess, MaxSeverity, TxtBenign),
      Issue(TxtSsnUpper, 1, TxtBenign) }
    \cup { Issue(TxtAccess, s, TxtBreach) : s \in 1..MaxSeverity }

SeqsUpTo(S, n) == UNION { [1..k -> S] : k \in 0..n }

\* values of hipaa: well-formed reports and structurally invalid ones
DomainValues(n) ==
    { DomainReport(TxtBenign, items) : items \in SeqsUpTo(IssueSet, n) }
    \cup { DomainReport(TxtBreachUpper, <<>>),
           [tag |-> "text", text |-> TxtBreach],
           [tag |-> "report", summary |-> TxtBreach,
            issues |-> [tag |-> "text", text |-> TxtBreach]],
           DomainReport(TxtBenign, << TextEntry(TxtBreach) >>) }

StatusValues == {"OK", "WARNING", "VIOLATION", "UNKNOWN"}

RecommendationValues == { << TxtRecommend >> }

\* a recommendations list whose top entry names two actions
TwoActionsFirst == << TxtRecommendTwo, TxtRecommend >>

RawValues ==
    { RawDetails(RawText(TxtBenign), RawText(TxtNearMiss)),
      RawDetails(RawText(TxtBreach), RawText(TxtBenign)),
      RawDetails(RawText(TxtBenign),
                 RawList(<< RawText(TxtBenign), RawList(<< RawText(TxtBreachUpper) >>) >>)) }

Opt(S) == {{}} \cup { {v} : v \in S }

\* the number of issue mappings a domain value carries
IssueCount(ho) ==
    IF ho = {} THEN 0
    ELSE LET d == CHOOSE v \in ho : TRUE
         IN IF d.tag = "report" /\ d.issues.tag = "list"
            THEN Len(d.issues.items) ELSE 0

\* a verdict fed back as if it were a synthesized report
AsReport(v) ==
    Mapping([status |-> v.status, reason |-> v.reason, suggestions |-> v.suggestions])

\* absent, non-mappings, mappings of other keys, and verdict-shaped mappings
OtherInputs ==
    { Absent,
      NotAMappingText(TxtBenign),
      NotAMappingText(TxtViolationWord),
      NotAMappingText(TxtBreach),
      NotAMappingList(<< TxtBreach, TxtViolationWord >>),
      Mapping([note |-> TxtBreach]),
      Mapping([note |-> TxtViolationWord, title |-> TxtBenign]),
      AsReport(FallbackVerdict),
      AsReport(OkVerdict) }

\* reports without status in which one domain holds the issue of example 2 or
\* of example 3, alone or after an issue without trigger, and the other domain
\* is absent, has no issues or is not a report
ExampleIssues ==
    { Issue(TxtAccess, 1, TxtPatientName), Issue(TxtAccess, 1, TxtHospitalization) }

ExampleReports ==
    { Mapping(ReportFields({}, {DomainReport(TxtBenign, pre \o << i >>)}, fo, ro, {})) :
        i \in ExampleIssues,
        pre \in { <<>>, << Issue(TxtAccess, MaxSeverity, TxtBenign) >> },
        fo \in Opt({ DomainReport(TxtBenign, <<>>), [tag |-> "text", text |-> TxtBenign] }),
        ro \in Opt(RecommendationValues) }
    \cup
    { Mapping(ReportFields({}, ho, {DomainReport(TxtBenign, pre \o << i >>)}, ro, {})) :
        i \in ExampleIssues,
        pre \in { <<>>, << Issue(TxtAccess, MaxSeverity, TxtBenign) >> },
        ho \in Opt({ DomainReport(TxtBenign, <<>>), [tag |-> "text", text |-> TxtBenign] }),
        ro \in Opt(RecommendationValues) }

\* reports without status in which hipaa is no report, or its issues are no
\* list, and holds no trigger, and fda is absent, has no issues, or has one
InvalidDomainReports ==
    { Mapping(ReportFields({}, {h}, fo, {}, {})) :
        h \in { [tag |-> "text", text |-> TxtBenign],
                [tag |-> "report", summary |-> TxtBenign,
                 issues |-> [tag |-> "text", text |-> TxtBenign]] },
        fo \in Opt({ DomainReport(TxtBenign, <<>>),
                     DomainReport(TxtBenign, << Issue(TxtAccess, 1, TxtBenign) >>) }) }

\* reports built as synthesizer_instruction tells: hipaa, fda, and
\* raw_details holding the two domain reports as-is, with or without status
\* and recommendations; issues are mappings or the quoted texts of the examples
HipaaAsTold ==
    { DomainReport(TxtBenign, <<>>),
      DomainReport(TxtBenign, << Issue(TxtAccess, 1, TxtPatientName) >>),
      DomainReport(TxtBenign, << TextEntry(TxtPatientName) >>),
      DomainReport(TxtBenign, << TextEntry(TxtBenign) >>),
      DomainReport(TxtBenign, << Issue(TxtAccess, 1, TxtPatientName), TextEntry(TxtBenign) >>),
      DomainReport(TxtBreach, << TextEntry(TxtBenign) >>) }

FdaAsTold ==
    { DomainReport(TxtBenign, <<>>),
      DomainReport(TxtBenign, << TextEntry(TxtHospitalization) >>) }

PairsAsTold ==
    { hf \in HipaaAsTold \X FdaAsTold :
        IssueCount({hf[1]}) + IssueCount({hf[2]}) <= MaxIssues }

ReportsAsTold ==
    { Mapping(ReportFields(so, {hf[1]}, {hf[2]}, ro, {RawDetails(hf[1], hf[2])})) :
        so \in Opt({"OK", "WARNING", "VIOLATION"}),
        hf \in PairsAsTold,
        ro \in Opt(RecommendationValues) }

NoVerdict == Verdict("", Reason("none", "", "", NoItem), <<>>)


----------------------------------------------------------------------------
(* The tools of the five specialists: scan_privacy, get_security_findings, *)
(* assess_breach, scan_records, scan_signatures                            *)

\* how a python block ends: with a value, or with an exception
Returned(v) == [kind |-> "return", value |-> v]
Raised(type, message) == [kind |-> "raise", type |-> type, message |-> message]

\* arguments a tool may be called with: None, a number, a string, a list
PyNone == [tag |-> "absent"]
PyInt(n) == [tag |-> "int", n |-> n]
PyStr(t) == [tag |-> "text", text |-> t]
PyList(items) == [tag |-> "list", items |-> items]

\* len(x): the length of a string or a list, TypeError for None and numbers
HasLen(x) == x.tag \in {"text", "list"}
PyLen(x) == IF x.tag = "text" THEN Len(x.text) ELSE Len(x.items)
TypeName(x) == IF x.tag = "absent" THEN "NoneType" ELSE x.tag
LenOf(x) ==
    IF HasLen(x) THEN Returned(PyLen(x))
    ELSE Raised("TypeError", << "object of type '", TypeName(x), "' has no len()" >>)

\* the try block of a tool: the clock is read at t1 and then at t2
ScanTry(user_query, context, analysis_type, t1, t2) ==
    IF LenOf(user_query).kind = "raise" THEN LenOf(user_query)
    ELSE Returned(
           [result |-> [user_query |-> user_query, context |-> context],
            stats |-> [query_length |-> LenOf(user_query).value,
                       analysis_timestamp |-> t1],
            additional_info |-> [collected_at |-> t2, data_format |-> "dict",
                                 analysis_type |-> analysis_type]])

\* an except clause that raises the exception again
ScanExceptReraise(name, e) == e

\* the except clause: the result built from the exception e
ScanExcept(name, e) ==
    Returned([result |-> [error |-> << name, " failed: ", e.message >>],
              stats |-> [success |-> FALSE],
              additional_info |-> [error_type |-> e.type]])

\* try: ... except Exception as e: ...
ScanTool(name, user_query, context, analysis_type, t1, t2) ==
    IF ScanTry(user_query, context, analysis_type, t1, t2).kind = "raise"
    THEN ScanExcept(name, ScanTry(user_query, context, analysis_type, t1, t2))
    ELSE ScanTry(user_query, context, analysis_type, t1, t2)

scan_privacy(user_query, t1, t2) ==
    ScanTool("scan_privacy", user_query,
             "Analyzing for HIPAA Privacy Rule compliance", "privacy_rule", t1, t2)

get_security_findings(user_query, t1, t2) ==
    ScanTool("get_security_findings", user_query,
             "Analyzing for HIPAA Security Rule compliance", "security_rule", t1, t2)

assess_breach(user_query, t1, t2) ==
    ScanTool("assess_breach", user_query,
             "Analyzing for HIPAA breach notification requirements",
             "breach_notification", t1, t2)

scan_records(user_query, t1, t2) ==
    ScanTool("scan_records", user_query,
             "Analyzing for 21 CFR Part 11 electronic record-keeping compliance",
             "electronic_records", t1, t2)

scan_signatures(user_query, t1, t2) ==
    ScanTool("scan_signatures", user_query,
             "Analyzing for 21 CFR Part 11 electronic signature compliance",
             "electronic_signatures", t1, t2)

ToolNames ==
    {"scan_privacy", "get_security_findings", "assess_breach",
     "scan_records", "scan_signatures"}

\* the tool of that name applied to the query
CallTool(name, user_query, t1, t2) ==
    CASE name = "scan_privacy" -> scan_privacy(user_query, t1, t2)
      [] name = "get_security_findings" -> get_security_findings(user_query, t1, t2)
      [] name = "assess_breach" -> assess_breach(user_query, t1, t2)
      [] name = "scan_records" -> scan_records(user_query, t1, t2)
      [] name = "scan_signatures" -> scan_signatures(user_query, t1, t2)

\* arguments of any type and length, and the readings of the clock
ToolQueries ==
    { PyNone, PyInt(0), PyInt(7),
      PyStr(<<>>), PyStr(TxtBenign), PyStr(TxtBreach), PyStr(TxtPatientName),
      PyStr(TxtHospitalization), PyList(<<>>), PyList(<< TxtBenign, TxtBreach >>) }
Clock == 1..MaxClock

NoCall == [name |-> "", user_query |-> PyNone, outcome |-> Returned(PyNone)]
ToolsIdle == tool_call = NoCall

\* the tool of that name is called with some argument
Invoke(name) ==
    /\ \E q \in ToolQueries, t1 \in Clock :
          \E t2 \in t1..MaxClock :
             tool_call' = [name |-> name, user_query |-> q,
                           outcome |-> CallTool(name, q, t1, t2)]
    /\ UNCHANGED <<updateVars, resolverVars, pipelineVars, historyVars, callVars>>

ToolsNext ==
    \/ Invoke("scan_privacy")
    \/ Invoke("get_security_findings")
    \/ Invoke("assess_breach")
    \/ Invoke("scan_records")
    \/ Invoke("scan_signatures")

----------------------------------------------------------------------------
(* ghost_coordinator: the agents and the order in which they run           *)

\* sub_agents of hipaa_parallel and of fda_parallel, in their listed order
HipaaSpecialists ==
    << "hipaa_privacy_agent", "hipaa_security_agent", "hipaa_breach_agent" >>
FdaSpecialists == << "part11_records_agent", "part11_signatures_agent" >>

Range(f) == { f[i] : i \in DOMAIN f }

Domains == {"hipaa", "fda"}
SubAgents(d) == IF d = "hipaa" THEN HipaaSpecialists ELSE FdaSpecialists
SummaryAgent(d) == IF d = "hipaa" THEN "hipaa_summary" ELSE "fda_summary"
DomainOf(a) == IF a \in Range(HipaaSpecialists) THEN "hipaa" ELSE "fda"

Specialists == Range(HipaaSpecialists) \cup Range(FdaSpecialists)
Gatherers == Specialists \cup {"hipaa_summary", "fda_summary"}
Agents == Gatherers \cup {"ghost_synthesizer", "ghost_simplifier"}

\* output keys of which two specialists share one
OutputKeyShared(a) ==
    CASE a = "hipaa_privacy_agent" -> "hipaa_privacy"
      [] a = "hipaa_security_agent" -> "hipaa_privacy"
      [] a = "hipaa_breach_agent" -> "hipaa_breach"
      [] a = "part11_records_agent" -> "part11_records"
      [] a = "part11_signatures_agent" -> "part11_signatures"

\* output_key of each specialist
OutputKey(a) ==
    CASE a = "hipaa_privacy_agent" -> "hipaa_privacy"
      [] a = "hipaa_security_agent" -> "hipaa_security"
      [] a = "hipaa_breach_agent" -> "hipaa_breach"
      [] a = "part11_records_agent" -> "part11_records"
      [] a = "part11_signatures_agent" -> "part11_signatures"

\* the session keys a specialist reads: none, its tool hands it the query
ReadKeys(a) == {}

\* tools=[...] of each specialist
ToolOf(a) ==
    CASE a = "hipaa_privacy_agent" -> "scan_privacy"
      [] a = "hipaa_security_agent" -> "get_security_findings"
      [] a = "hipaa_breach_agent" -> "assess_breach"
      [] a = "part11_records_agent" -> "scan_records"
      [] a = "part11_signatures_agent" -> "scan_signatures"

\* an order in which no summary agent waits for its specialists
BeforeUnordered(a) ==
    CASE a \in Gatherers -> {}
      [] a = "ghost_synthesizer" -> Gatherers
      [] a = "ghost_simplifier" -> Gatherers \cup {"ghost_synthesizer"}

\* the agents that have ended when a starts: a SequentialAgent runs its
\* sub_agents one after the other, a ParallelAgent ends when all of its have
Before(a) ==
    CASE a \in Specialists -> {}
      [] a = "hipaa_summary" -> Range(HipaaSpecialists)
      [] a = "fda_summary" -> Range(FdaSpecialists)
      [] a = "ghost_synthesizer" -> Gatherers
      [] a = "ghost_simplifier" -> Gatherers \cup {"ghost_synthesizer"}

\* a may start once the agents of D have ended
Ready(a, D) == Before(a) \subseteq D

\* the keys of the session state the gather stage could write
StateKeys ==
    { OutputKey(a) : a \in Specialists } \cup {"hipaa_report", "fda_report"}

Unset == [tag |-> "unset"]
Written(a, v) == [tag |-> "set", by |-> a, value |-> v]

\* the issue a specialist reports when its tool gave it the query
SpecialistIssue(a) ==
    CASE a = "hipaa_privacy_agent" -> Issue(TxtAccess, 1, TxtPatientName)
      [] a = "hipaa_security_agent" -> Issue(TxtAccess, MaxSeverity, TxtBenign)
      [] a = "hipaa_breach_agent" -> Issue(TxtAccess, 1, TxtBreach)
      [] a = "part11_records_agent" -> Issue(TxtAccess, 1, TxtHospitalization)
      [] a = "part11_signatures_agent" -> Issue(TxtSsnUpper, 1, TxtBenign)

\* the issues lists a specialist may answer with: none ("If NO issues found,
\* return an empty list"), one, or several; the list of two issues is
\* explored for hipaa_privacy_agent
IssueLists(a) ==
    CASE a = "hipaa_privacy_agent" ->
            { <<>>, << SpecialistIssue(a) >>,
              << SpecialistIssue(a), Issue(TxtAccess, MaxSeverity, TxtBenign) >> }
      [] OTHER -> { <<>>, << SpecialistIssue(a) >> }

\* the structured response each specialist's instruction asks for, for the
\* issues it found and the raw output d of its tool
privacy_instruction(issues, d) ==
    [short_summary |-> TxtBenign, issues |-> issues,
     recommendations |-> << TxtRecommend >>, raw |-> d]

security_instruction(issues, d) ==
    [short_summary |-> TxtBenign, issues |-> issues,
     recommendations |-> << TxtRecommend >>, raw |-> d]

\* notification_requirements: "If gaps exist, specify what notifications
\* would be required"
breach_instruction(issues, d) ==
    [short_summary |-> TxtBenign, breach_risk_assessment |-> TxtBenign,
     issues |-> issues,
     notification_requirements |-> IF Len(issues) > 0 THEN << TxtBreach >> ELSE <<>>,
     raw |-> d]

records_instruction(issues, d) ==
    [short_summary |-> TxtBenign, issues |-> issues, raw |-> d]

signatures_instruction(issues, d) ==
    [short_summary |-> TxtBenign, issues |-> issues, raw |-> d]

\* what a specialist may store under its output_key for the tool output d:
\* the response of its own instruction; the instruction ties the issues to
\* the analysis, not to the tool's outcome
Findings(a, d) ==
    { CASE a = "hipaa_privacy_agent" -> privacy_instruction(issues, d)
        [] a = "hipaa_security_agent" -> security_instruction(issues, d)
        [] a = "hipaa_breach_agent" -> breach_instruction(issues, d)
        [] a = "part11_records_agent" -> records_instruction(issues, d)
        [] a = "part11_signatures_agent" -> signatures_instruction(issues, d) :
        issues \in IssueLists(a) }

\* the queries the specialists hand to their tools
ToolArgs == { PyStr(TxtBenign), PyNone }

\* the orders in which a summary agent may list the results it received
Orders(d) ==
    { p \in [1..Len(SubAgents(d)) -> Range(SubAgents(d))] :
        \A i, j \in 1..Len(SubAgents(d)) : p[i] = p[j] => i = j }

\* the issues stored by the agents of order, one agent after the other
RECURSIVE IssuesInOrder(_, _)
IssuesInOrder(order, st) ==
    IF Len(order) = 0 THEN <<>>
    ELSE st[OutputKey(Head(order))].value.issues \o IssuesInOrder(Tail(order), st)

Done == { a \in Agents : agent_state[a] = "done" }

PipelineIdle ==
    /\ agent_state = [a \in Agents |-> "idle"]
    /\ state = [k \in StateKeys |-> Unset]
    /\ arrived = [d \in Domains |-> <<>>]
    /\ merged = [d \in Domains |-> Absent]
    /\ aborted = FALSE

\* an agent starts when the agents before it have ended
StartAgent(a) ==
    /\ ~aborted
    /\ agent_state[a] = "idle"
    /\ Ready(a, Done)
    /\ agent_state' = [agent_state EXCEPT ![a] = "running"]
    /\ UNCHANGED <<state, arrived, merged, aborted, resolverVars, besidesPipeline>>

\* an exception leaves a running agent: its model call fails, or the
\* framework does. No agent and no coordinator catches it, so it leaves
\* runner.run_async and no later agent runs
AgentRaises(a) ==
    /\ ~aborted
    /\ agent_state[a] = "running"
    /\ agent_state' = [agent_state EXCEPT ![a] = "raised"]
    /\ aborted' = TRUE
    /\ UNCHANGED <<state, arrived, merged, resolverVars, besidesPipeline>>

\* a specialist calls its tool, which returns a dictionary whatever happens
\* inside it, and stores its findings under its output_key
FinishSpecialist(a) ==
    /\ ~aborted
    /\ agent_state[a] = "running"
    /\ \E q \in ToolArgs :
          /\ CallTool(ToolOf(a), q, 1, 1).kind = "return"
          /\ \E found \in Findings(a, CallTool(ToolOf(a), q, 1, 1).value) :
                state' = [state EXCEPT ![OutputKey(a)] = Written(a, found)]
    /\ agent_state' = [agent_state EXCEPT ![a] = "done"]
    /\ arrived' = [arrived EXCEPT ![DomainOf(a)] = Append(@, a)]
    /\ UNCHANGED <<merged, aborted, resolverVars, besidesPipeline>>

\* hipaa_summary, fda_summary: the domain report lists the issues of the
\* specialists, whose results it has taken; the instruction fixes no order,
\* and no output_key stores the report
FinishSummary(d) ==
    /\ ~aborted
    /\ agent_state[SummaryAgent(d)] = "running"
    /\ \E order \in Orders(d) :
          merged' = [merged EXCEPT ![d] = DomainReport(TxtBenign, IssuesInOrder(order, state))]
    /\ agent_state' = [agent_state EXCEPT ![SummaryAgent(d)] = "done"]
    /\ arrival' = IF arrival # "none" THEN arrival
                  ELSE IF d = "hipaa" THEN "hipaa_first" ELSE "fda_first"
    /\ arrived' = [arrived EXCEPT ![d] = <<>>]
    /\ UNCHANGED <<state, aborted, synthesized_report, simplified_report, phase,
                   besidesPipeline>>

\* what ghost_synthesizer may make of the two domain reports: the mapping
\* synthesizer_instruction prescribes, with any of the three statuses, the
\* same with keys left out, or a text that is no mapping
Synthesized(h, f) ==
    { Mapping(ReportFields({so}, {h}, {f}, {<< TxtRecommend >>}, {RawDetails(h, f)})) :
        so \in {"OK", "WARNING", "VIOLATION"} }
    \cup { Mapping(ReportFields({}, {h}, {f}, {}, {})),
           NotAMappingText(TxtBenign) }

\* ghost_synthesizer stores its report under synthesized_report
FinishSynthesizer ==
    /\ ~aborted
    /\ agent_state["ghost_synthesizer"] = "running"
    /\ synthesized_report' \in Synthesized(merged["hipaa"], merged["fda"])
    /\ agent_state' = [agent_state EXCEPT !["ghost_synthesizer"] = "done"]
    /\ phase' = "synthesized"
    /\ UNCHANGED <<state, arrived, merged, aborted, simplified_report, arrival,
                   besidesPipeline>>

\* ghost_simplifier stores its verdict under simplified_report
FinishSimplifier ==
    /\ ~aborted
    /\ agent_state["ghost_simplifier"] = "running"
    /\ simplified_report' \in Resolve(synthesized_report)
    /\ agent_state' = [agent_state EXCEPT !["ghost_simplifier"] = "done"]
    /\ phase' = "resolved"
    /\ UNCHANGED <<state, arrived, merged, aborted, synthesized_report, arrival,
                   besidesPipeline>>

PipelineNext ==
    \/ \E a \in Agents : StartAgent(a)
    \/ \E a \in Agents : AgentRaises(a)
    \/ \E a \in Specialists : FinishSpecialist(a)
    \/ \E d \in Domains : FinishSummary(d)
    \/ FinishSynthesizer
    \/ FinishSimplifier


----------------------------------------------------------------------------
(* The session and its interaction history: atomic_update_session,         *)
(* update_interaction_history                                              *)

\* initial_state of main_async
InitialState ==
    [user_name |-> "Demo User", interaction_history |-> <<>>, alerts |-> <<>>]

\* e.get(key, default)
Get(e, key, default) == IF key \in DOMAIN e THEN e[key] ELSE default

\* datetime.now().strftime("%Y-%m-%d %H:%M:%S"): the seconds of the reading
Digits == << "0", "1", "2", "3", "4", "5", "6", "7", "8", "9" >>
FormatTime(n) == << Digits[(n \div 10) + 1], Digits[(n % 10) + 1] >>

Bar == << "|" >>

\* an identifier that falls back on the response when there is no query or id
entry_id_with_response(e) ==
    Get(e, "action", <<>>) \o Bar \o Get(e, "timestamp", <<>>) \o Bar
        \o Get(e, "query", Get(e, "course_id", Get(e, "response", <<>>)))

\* an identifier that leaves the timestamp out
entry_id_without_timestamp(e) ==
    Get(e, "action", <<>>) \o Bar \o Get(e, "query", Get(e, "course_id", <<>>))

\* _entry_id: f"{action}|{timestamp}|{query, else course_id}"
entry_id(e) ==
    Get(e, "action", <<>>) \o Bar \o Get(e, "timestamp", <<>>) \o Bar
        \o Get(e, "query", Get(e, "course_id", <<>>))

\* the entry with a timestamp: the clock is read when the entry has none
WithTimestamp(entry, t) ==
    IF "timestamp" \in DOMAIN entry THEN entry
    ELSE [k \in DOMAIN entry \cup {"timestamp"} |->
            IF k = "timestamp" THEN FormatTime(t) ELSE entry[k]]

\* latest_state["interaction_history"] = latest_history: the key is set,
\* added when the state had none
WithHistory(latest_state, latest_history) ==
    [k \in DOMAIN latest_state \cup {"interaction_history"} |->
        IF k = "interaction_history" THEN latest_history ELSE latest_state[k]]

\* list(latest_state.get("interaction_history", []))
HistoryOf(latest_state) == Get(latest_state, "interaction_history", <<>>)

\* new_id is among existing_ids, the identifiers of the entries of the list
IsExisting(entry, latest_history) ==
    \E i \in 1..Len(latest_history) : entry_id(latest_history[i]) = entry_id(entry)

\* a patch that puts the new entry first
patch_fn_newest_first(entry, latest_state) ==
    WithHistory(latest_state,
                IF IsExisting(entry, HistoryOf(latest_state))
                THEN HistoryOf(latest_state)
                ELSE << entry >> \o HistoryOf(latest_state))

\* patch_fn of update_interaction_history
patch_fn(entry, latest_state) ==
    WithHistory(latest_state,
                IF IsExisting(entry, HistoryOf(latest_state))
                THEN HistoryOf(latest_state)
                ELSE Append(HistoryOf(latest_state), entry))

\* isinstance(x, dict)
IsDict(x) == "tag" \notin DOMAIN x

\* dict(session.state) if isinstance(session.state, dict) else {}
LatestState(stored) == IF IsDict(stored) THEN stored ELSE [k \in {} |-> <<>>]

NoUpdate ==
    [pc |-> "idle", entry |-> [action |-> <<>>], attempt |-> 0, new_state |-> PyNone]

\* the state of a session when the helpers are called: the one main_async
\* creates, or one of another caller, created without interaction_history
SessionStates == {InitialState, [user_name |-> "Demo User", alerts |-> <<>>]}

HistoryIdle ==
    /\ update = NoUpdate
    /\ now = 1

\* update_interaction_history is entered with the entry, the clock reading t
BeginUpdate(entry, t) ==
    /\ update' = [pc |-> "trying", entry |-> WithTimestamp(entry, t), attempt |-> 1,
                  new_state |-> PyNone]
    /\ now' = t

\* get_session returns the session and patch_fn is applied to a copy of its
\* state; its result is a dict, so the attempt goes on to create_session
AttemptReads ==
    /\ update.pc = "trying"
    /\ update' = [update EXCEPT !.pc = "writing",
                                !.new_state = patch_fn(update.entry,
                                                       LatestState(session_state))]
    /\ UNCHANGED <<session_state, now, updateVars, resolverVars, pipelineVars, toolVars, callVars>>

\* create_session stores new_state as the state of the session; return
AttemptWrites ==
    /\ update.pc = "writing"
    /\ session_state' = update.new_state
    /\ update' = [update EXCEPT !.pc = "returned", !.new_state = PyNone]
    /\ UNCHANGED <<now, updateVars, resolverVars, pipelineVars, toolVars, callVars>>

\* get_session or create_session raises: the next attempt follows, and after
\* max_retries attempts RuntimeError is raised
AttemptFails ==
    /\ update.pc \in {"trying", "writing"}
    /\ update' = IF update.attempt < max_retries
                 THEN [update EXCEPT !.pc = "trying", !.attempt = @ + 1,
                                     !.new_state = PyNone]
                 ELSE [update EXCEPT !.pc = "raised", !.new_state = PyNone]
    /\ UNCHANGED <<session_state, now, updateVars, resolverVars, pipelineVars, toolVars, callVars>>

TxtAgentResponse ==
    << "a", "g", "e", "n", "t", "_", "r", "e", "s", "p", "o", "n", "s", "e" >>
TxtUserQuery == << "u", "s", "e", "r", "_", "q", "u", "e", "r", "y" >>
TxtAsk == << "a", "s", "k" >>
TxtQBarR == << "q", "|", "r" >>
TxtQ == << "q" >>
TxtR == << "r" >>

\* entries handed to update_interaction_history: those of
\* add_user_query_to_history (the query is the user's text, here with and
\* without a bar) and add_agent_response_to_history, which carry no
\* timestamp, and entries with a timestamp, with query or course_id
Entries ==
    { [action |-> TxtUserQuery, query |-> TxtQ],
      [action |-> TxtUserQuery, query |-> TxtQBarR],
      [action |-> TxtAgentResponse, agent |-> "ghost_simplifier", response |-> TxtQ],
      [action |-> TxtAgentResponse, agent |-> "ghost_synthesizer", response |-> TxtR],
      [action |-> TxtAsk, timestamp |-> FormatTime(1), query |-> TxtQ],
      [action |-> TxtAsk, timestamp |-> FormatTime(1), course_id |-> TxtQ] }

\* a caller enters update_interaction_history
CallUpdate ==
    /\ update.pc \in {"idle", "returned", "raised"}
    /\ Len(HistoryOf(session_state)) < MaxHistory
    /\ \E entry \in Entries, t \in now..MaxClock : BeginUpdate(entry, t)
    /\ UNCHANGED <<session_state, updateVars, resolverVars, pipelineVars, toolVars, callVars>>

HistoryNext == CallUpdate \/ AttemptReads \/ AttemptWrites \/ AttemptFails

----------------------------------------------------------------------------
(* atomic_update_session, step by step, with callers that may interleave   *)

Callers == {"first", "second"}

NoEntry == [action |-> <<>>]

\* the functions handed over as patch_fn: the one of
\* update_interaction_history for an entry, one that returns None, one that
\* raises
HistoryPatch(entry) == [kind |-> "history", entry |-> entry]
ReturnsNone == [kind |-> "none", entry |-> NoEntry]
RaisesKeyError == [kind |-> "raise", entry |-> NoEntry]

\* patch_fn(dict(latest_state))
ApplyPatch(patch, latest_state) ==
    CASE patch.kind = "history" -> Returned(patch_fn(patch.entry, latest_state))
      [] patch.kind = "none" -> Returned(PyNone)
      [] OTHER -> Raised("KeyError", "interaction_history")

\* the patches a caller may bring: entries with different keys, the same
\* entry, and the patches that fail
PatchesOf(p) ==
    { HistoryPatch([action |-> TxtAsk, timestamp |-> FormatTime(1),
                    query |-> IF p = "first" THEN TxtQ ELSE TxtR]),
      HistoryPatch([action |-> TxtUserQuery, timestamp |-> FormatTime(1),
                    query |-> TxtQ]),
      ReturnsNone,
      RaisesKeyError }

NoException == [kind |-> "none"]

NotCalled ==
    [pc |-> "idle", attempt |-> 0, patch |-> ReturnsNone, new_state |-> PyNone,
     last_exception |-> NoException, failed |-> 0, writes |-> 0,
     before |-> PyNone,
     result |-> NoException]

UpdatesIdle == caller = [p \in Callers |-> NotCalled]

\* except Exception as exc: last_exception = exc, sleep, next attempt; after
\* the loop RuntimeError is raised
RuntimeError(attempts, last) ==
    Raised("RuntimeError",
           << "atomic_update_session failed after ", attempts, " attempts: ", last >>)

\* the loop goes on after a failed attempt however many attempts were made
ExceptUnbounded(c, exc) ==
    [c EXCEPT !.pc = "get", !.attempt = @ + 1, !.new_state = PyNone,
              !.last_exception = exc, !.failed = @ + 1]

Except(c, exc) ==
    IF c.attempt < max_retries
    THEN [c EXCEPT !.pc = "get", !.attempt = @ + 1, !.new_state = PyNone,
                   !.last_exception = exc, !.failed = @ + 1]
    ELSE [c EXCEPT !.pc = "raised", !.new_state = PyNone, !.last_exception = exc,
                   !.failed = @ + 1, !.result = RuntimeError(max_retries, exc)]

\* atomic_update_session is entered with patch_fn: attempt 1 begins
Enter(p) ==
    /\ caller[p].pc = "idle"
    /\ \E patch \in PatchesOf(p) :
          caller' = [caller EXCEPT ![p] =
                        [NotCalled EXCEPT !.pc = "get", !.attempt = 1,
                                          !.patch = patch,
                                          !.before = session_state]]
    /\ UNCHANGED <<session_state, update, now>>
    /\ UNCHANGED <<resolverVars, pipelineVars, toolVars, callVars>>

\* get_session raises
GetSessionRaises(p) ==
    /\ caller[p].pc = "get"
    /\ caller' = [caller EXCEPT ![p] = Except(@, Raised("OperationalError", "get_session"))]
    /\ UNCHANGED <<session_state, update, now>>
    /\ UNCHANGED <<resolverVars, pipelineVars, toolVars, callVars>>

\* an attempt that writes whatever patch_fn returned
PatchedUnchecked(c, latest_state) ==
    IF ApplyPatch(c.patch, latest_state).kind = "raise"
    THEN Except(c, ApplyPatch(c.patch, latest_state))
    ELSE [c EXCEPT !.pc = "create",
                   !.new_state = ApplyPatch(c.patch, latest_state).value]

\* what the attempt does with the state it read: the state to write, or the
\* exception of patch_fn, or ValueError for a result that is no dict
Patched(c, latest_state) ==
    IF ApplyPatch(c.patch, latest_state).kind = "raise"
    THEN Except(c, ApplyPatch(c.patch, latest_state))
    ELSE IF ~IsDict(ApplyPatch(c.patch, latest_state).value)
    THEN Except(c, Raised("ValueError", "patch_fn must return dict"))
    ELSE [c EXCEPT !.pc = "create",
                   !.new_state = ApplyPatch(c.patch, latest_state).value]

\* get_session returns the session; patch_fn is applied to a copy of its state
GetSessionAndPatch(p) ==
    /\ caller[p].pc = "get"
    /\ caller' = [caller EXCEPT ![p] = Patched(@, LatestState(session_state))]
    /\ UNCHANGED <<session_state, update, now>>
    /\ UNCHANGED <<resolverVars, pipelineVars, toolVars, callVars>>

\* create_session raises
CreateSessionRaises(p) ==
    /\ caller[p].pc = "create"
    /\ caller' = [caller EXCEPT ![p] = Except(@, Raised("OperationalError", "create_session"))]
    /\ UNCHANGED <<session_state, update, now>>
    /\ UNCHANGED <<resolverVars, pipelineVars, toolVars, callVars>>

\* create_session stores new_state as the state of the session; return
CreateSession(p) ==
    /\ caller[p].pc = "create"
    /\ session_state' = caller[p].new_state
    /\ caller' = [caller EXCEPT ![p] =
                    [@ EXCEPT !.pc = "returned", !.writes = @ + 1,
                              !.new_state = PyNone, !.result = Returned(PyNone)]]
    /\ UNCHANGED <<update, now>>
    /\ UNCHANGED <<resolverVars, pipelineVars, toolVars, callVars>>

\* the steps of atomic_update_session once it is entered
Attempt(p) ==
    \/ GetSessionRaises(p)
    \/ GetSessionAndPatch(p)
    \/ CreateSessionRaises(p)
    \/ CreateSession(p)

UpdatesNext == \E p \in Callers : Enter(p) \/ Attempt(p)

----------------------------------------------------------------------------
(* call_agent_async: the events of the run, then the history               *)

\* str.strip(): the text without leading and trailing whitespace. A text is a
\* sequence of characters; a character that cannot be written in a string of
\* this module is named by its code point. These are the characters for which
\* str.isspace() holds, which are the ones strip() without argument removes.
Whitespace ==
    { "\t", "\n", "U+000B", "\f", "\r", "U+001C", "U+001D", "U+001E", "U+001F",
      " ", "U+0085", "U+00A0", "U+1680", "U+2000", "U+2001", "U+2002", "U+2003",
      "U+2004", "U+2005", "U+2006", "U+2007", "U+2008", "U+2009", "U+200A",
      "U+2028", "U+2029", "U+202F", "U+205F", "U+3000" }

RECURSIVE LStrip(_)
LStrip(t) ==
    IF t # <<>> /\ Head(t) \in Whitespace THEN LStrip(Tail(t)) ELSE t

RECURSIVE RStrip(_)
RStrip(t) ==
    IF t # <<>> /\ t[Len(t)] \in Whitespace THEN RStrip(SubSeq(t, 1, Len(t) - 1))
    ELSE t

Strip(t) == RStrip(LStrip(t))

\* the text agent a answers with, as the model emits it: the answer, named
\* after its author, between whitespace (a space and a line feed in front, a
\* carriage return and a line feed behind)
TextOf(a) == << " ", "\n", a, "\r", "\n" >>
TxtBlank == << "\r", "\n" >>

\* the response taken from the last event of agent a
ResponseOf(a) == PyStr(Strip(TextOf(a)))

\* bool(x) of None, a string or a list
Truthy(x) ==
    CASE x.tag = "absent" -> FALSE
      [] x.tag = "text" -> x.text # <<>>
      [] x.tag = "list" -> x.items # <<>>
      [] OTHER -> TRUE

\* event.content: None, or a content with its parts
Content(parts) == [tag |-> "content", parts |-> PyList(parts)]

CallIdle ==
    /\ call_pc = "idle"
    /\ emitted = {}
    /\ final_response_text = PyNone
    /\ agent_name = PyNone
    /\ call_result = PyNone

\* call_agent_async is entered and the runner is started
BeginCall ==
    /\ call_pc = "idle"
    /\ call_pc' = "streaming"
    /\ UNCHANGED <<emitted, final_response_text, agent_name, call_result>>
    /\ UNCHANGED <<updateVars, resolverVars, pipelineVars, toolVars, historyVars>>

\* process_agent_response: for a final response with parts, the stripped
\* text of the first part when the part has the attribute, AttributeError
\* when that text is None; None for every other event
process_agent_response(event) ==
    IF event.is_final_response /\ Truthy(event.content)
          /\ Truthy(event.content.parts)
    THEN IF "text" \in DOMAIN event.content.parts.items[1]
         THEN IF event.content.parts.items[1].text.tag = "text"
              THEN Returned(PyStr(Strip(event.content.parts.items[1].text.text)))
              ELSE Raised("AttributeError",
                          "'NoneType' object has no attribute 'strip'")
         ELSE Returned(PyNone)
    ELSE Returned(PyNone)

\* the contents an event may carry: none, no parts, a text, a text of
\* whitespace only, a first part whose text is None, a first part of
\* another kind followed by a text
ContentsOf(a) ==
    { PyNone,
      Content(<<>>),
      Content(<< [text |-> PyStr(TextOf(a))] >>),
      Content(<< [text |-> PyStr(TxtBlank)] >>),
      Content(<< [text |-> PyNone] >>),
      Content(<< [function_call |-> "tool"], [text |-> PyStr(TextOf(a))] >>) }

\* the events an agent may end with: a final response or not
LastEvents(a) ==
    { [author |-> a, is_final_response |-> fin, content |-> c] :
        fin \in BOOLEAN, c \in ContentsOf(a) }

\* if event.author: agent_name = event.author; the name is a text of one
\* token
NextAgentName(event, current) ==
    IF event.author # "" THEN PyStr(<< event.author >>) ELSE current

\* if response: final_response_text = response
NextResponse(response, current) ==
    IF Truthy(response) THEN response ELSE current

\* one iteration of "async for event in runner.run_async(...)": the name
\* is taken, then the response; an exception of process_agent_response is
\* caught by the except clause around the loop, which ends the loop
HandleEvent(a) ==
    /\ call_pc = "streaming"
    /\ a \notin emitted
    /\ Ready(a, emitted)
    /\ \E event \in LastEvents(a) :
          /\ agent_name' = NextAgentName(event, agent_name)
          /\ IF process_agent_response(event).kind = "raise"
             THEN /\ call_pc' = "after_run"
                  /\ UNCHANGED final_response_text
             ELSE /\ final_response_text' =
                        NextResponse(process_agent_response(event).value,
                                     final_response_text)
                  /\ UNCHANGED call_pc
    /\ emitted' = emitted \cup {a}
    /\ UNCHANGED call_result
    /\ UNCHANGED <<updateVars, resolverVars, pipelineVars, toolVars, historyVars>>

\* the run raises at a step of the loop, the one after the last event
\* included. "except Exception" catches an Exception (an error of an agent
\* or of the framework), and the code after the loop runs; an exception that
\* derives from BaseException only (CancelledError, KeyboardInterrupt) leaves
\* call_agent_async with nothing recorded
RunRaises ==
    /\ call_pc = "streaming"
    /\ \E is_exception \in BOOLEAN :
          call_pc' = IF is_exception THEN "after_run" ELSE "raised"
    /\ UNCHANGED <<emitted, final_response_text, agent_name, call_result>>
    /\ UNCHANGED <<updateVars, resolverVars, pipelineVars, toolVars, historyVars>>

\* the run ends after the last event of ghost_simplifier
RunEnds ==
    /\ call_pc = "streaming"
    /\ emitted = Agents
    /\ call_pc' = "after_run"
    /\ UNCHANGED <<emitted, final_response_text, agent_name, call_result>>
    /\ UNCHANGED <<updateVars, resolverVars, pipelineVars, toolVars, historyVars>>

\* the entry of add_agent_response_to_history
ResponseEntry(name, response) ==
    [action |-> TxtAgentResponse, agent |-> name, response |-> response]

\* after the loop: with a response and a name the history is updated,
\* without them call_agent_async goes on to display_state and returns, unless
\* display_state is interrupted
AfterRun ==
    /\ call_pc = "after_run"
    /\ IF Truthy(final_response_text) /\ Truthy(agent_name)
       THEN /\ \E t \in now..MaxClock :
                  BeginUpdate(ResponseEntry(agent_name.text[1], final_response_text.text), t)
            /\ call_pc' = "recording"
            /\ UNCHANGED call_result
       ELSE /\ \E interrupted \in BOOLEAN :
                  /\ call_pc' = IF interrupted THEN "raised" ELSE "returned"
                  /\ call_result' = IF interrupted THEN call_result
                                    ELSE final_response_text
            /\ UNCHANGED <<update, now>>
    /\ UNCHANGED <<emitted, final_response_text, agent_name, session_state>>
    /\ UNCHANGED <<updateVars, resolverVars, pipelineVars, toolVars>>

\* the history was updated: call_agent_async returns final_response_text
ReturnResponse ==
    /\ call_pc = "recording"
    /\ update.pc = "returned"
    /\ call_pc' = "returned"
    /\ call_result' = final_response_text
    /\ UNCHANGED <<emitted, final_response_text, agent_name>>
    /\ UNCHANGED <<updateVars, resolverVars, pipelineVars, toolVars, historyVars>>

\* an exception leaves call_agent_async after the loop, where nothing
\* catches it: the RuntimeError atomic_update_session raised, or an
\* interruption (KeyboardInterrupt, CancelledError) of
\* add_agent_response_to_history, whose attempt is given up where it stands,
\* or of the display_state that follows it
RaiseToCaller ==
    /\ call_pc = "recording"
    /\ update' = IF update.pc \in {"trying", "writing"}
                 THEN [update EXCEPT !.pc = "raised", !.new_state = PyNone]
                 ELSE update
    /\ call_pc' = "raised"
    /\ UNCHANGED <<emitted, final_response_text, agent_name, call_result>>
    /\ UNCHANGED <<session_state, now>>
    /\ UNCHANGED <<updateVars, resolverVars, pipelineVars, toolVars>>

CallNext ==
    \/ BeginCall
    \/ \E a \in Agents : HandleEvent(a)
    \/ RunRaises
    \/ RunEnds
    \/ AfterRun
    \/ AttemptReads
    \/ AttemptWrites
    \/ AttemptFails
    \/ ReturnResponse
    \/ RaiseToCaller

----------------------------------------------------------------------------
(* The run: ghost_synthesizer leaves synthesized_report in the session,    *)
(* then ghost_simplifier reads it and writes simplified_report             *)

\* nothing has run yet; the session holds the stored state
InitWith(stored) ==
    /\ synthesized_report = Absent
    /\ simplified_report = NoVerdict
    /\ arrival = "none"
    /\ phase = "start"
    /\ PipelineIdle
    /\ ToolsIdle
    /\ session_state = stored
    /\ HistoryIdle
    /\ CallIdle
    /\ UpdatesIdle

\* the session as main_async creates it
Init == InitWith(InitialState)

\* a session created by main_async or by another caller of the helpers
InitStored == \E stored \in SessionStates : InitWith(stored)

\* ghost_synthesizer: model output of any shape, stored under synthesized_report
SystemReportSynthesizer ==
    /\ phase = "start"
    /\ \/ \E so \in Opt(StatusValues), ho \in Opt(DomainValues(MaxIssues)),
             ro \in Opt(RecommendationValues), wo \in Opt(RawValues) :
            \E fo \in Opt(DomainValues(MaxIssues - IssueCount(ho))) :
               synthesized_report' = Mapping(ReportFields(so, ho, fo, ro, wo))
       \/ \E so \in Opt({"WARNING"}), ho \in Opt(DomainValues(MaxIssues)) :
            \E fo \in Opt(DomainValues(MaxIssues - IssueCount(ho))) :
               synthesized_report' = Mapping(ReportFields(so, ho, fo, {TwoActionsFirst}, {}))
       \/ \E x \in OtherInputs : synthesized_report' = x
       \/ \E x \in ExampleReports \cup InvalidDomainReports : synthesized_report' = x
       \/ \E x \in ReportsAsTold : synthesized_report' = x
    /\ arrival' \in {"hipaa_first", "fda_first"}
    /\ phase' = "synthesized"
    /\ UNCHANGED <<simplified_report, pipelineVars, besidesPipeline>>

\* ghost_simplifier reads synthesized_report and writes simplified_report
GhostSimplifier ==
    /\ phase = "synthesized"
    /\ simplified_report' \in Resolve(synthesized_report)
    /\ phase' = "resolved"
    /\ UNCHANGED <<synthesized_report, arrival, pipelineVars, besidesPipeline>>

Next == SystemReportSynthesizer \/ GhostSimplifier

Spec == Init /\ [][Next]_vars

\* a run of ghost_coordinator on one query
Pipeline == Init /\ [][PipelineNext]_vars

\* the event loop runs every agent that can take a step
FairPipeline == Pipeline /\ WF_vars(PipelineNext)

\* calls of the specialists' tools with arguments of any kind
Tools == Init /\ [][ToolsNext]_vars

\* calls of update_interaction_history, one after the other
History == InitStored /\ [][HistoryNext]_vars

\* one call of call_agent_async
Call == Init /\ [][CallNext]_vars

\* calls of atomic_update_session on one session, their steps interleaved
Updates == InitStored /\ [][UpdatesNext]_vars

\* every call that was entered goes on: its thread is scheduled, and the
\* calls of the session service and of patch_fn come back
FairUpdates == Updates /\ \A p \in Callers : WF_vars(Attempt(p))

----------------------------------------------------------------------------
(* Properties of the resolver *)

Resolved == phase = "resolved"
IsMap == synthesized_report.tag = "map"
Fields == synthesized_report.fields
StatusIs(st) == IsMap /\ "status" \in DOMAIN Fields /\ Fields.status = st
VerdictStatuses == {"OK", "WARNING", "VIOLATION"}

\* a domain report whose issues are a list of issue mappings
WellFormedDomain(d) ==
    /\ d.tag = "report"
    /\ d.issues.tag = "list"
    /\ \A i \in 1..Len(d.issues.items) : d.issues.items[i].tag = "issue"

\* C1: for every input (absent, empty mapping, non-mapping, mapping with any
\* subset of fields present, absent or structurally invalid) the resolver returns
\* a verdict with exactly the fields status, reason, suggestions, a status among
\* OK, WARNING, VIOLATION, and exactly one suggestion.
C1_Totality ==
    Resolved =>
        /\ DOMAIN simplified_report = {"status", "reason", "suggestions"}
        /\ simplified_report.status \in VerdictStatuses
        /\ Len(simplified_report.suggestions) = 1

\* C1 witness: resolved for a mapping with an unrecognized status and a hipaa
\* field that is not a mapping
C1_Witness ==
    /\ Resolved
    /\ StatusIs("UNKNOWN")
    /\ "hipaa" \in DOMAIN Fields /\ Fields.hipaa.tag = "text"
    /\ Len(simplified_report.suggestions) = 1

\* C2 as claimed: for an absent or non-mapping input the verdict is WARNING
\* with the fallback reason and the suggestion "Check that the synthesizer
\* produced the synthesized report and re-run the coordinator."
C2_FallbackAsClaimed ==
    (Resolved /\ ~IsMap) =>
        /\ simplified_report.status = "WARNING"
        /\ simplified_report.reason.text =
             "Synthesized report missing or malformed; cannot confidently determine compliance."
        /\ Len(simplified_report.suggestions) = 1
        /\ simplified_report.suggestions[1].text =
             "Check that the synthesizer produced the synthesized report and re-run the coordinator."

\* C2 amended: for an absent or non-mapping input the verdict is WARNING with
\* the fallback reason and the suggestion "Check that the synthesizer produced
\* 'synthesized_report' and re-run the coordinator."
C2_MalformedGuard ==
    (Resolved /\ ~IsMap) =>
        /\ simplified_report.status = "WARNING"
        /\ simplified_report.reason.text =
             "Synthesized report missing or malformed; cannot confidently determine compliance."
        /\ Len(simplified_report.suggestions) = 1
        /\ simplified_report.suggestions[1].text =
             "Check that the synthesizer produced 'synthesized_report' and re-run the coordinator."

\* C2 witness: resolved for the absent report
C2_Witness ==
    /\ Resolved
    /\ synthesized_report.tag = "absent"
    /\ simplified_report.status = "WARNING"

\* C3: a report whose status is VIOLATION resolves to VIOLATION, whatever hipaa,
\* fda, recommendations and raw_details hold.
C3_ViolationStays ==
    (Resolved /\ StatusIs("VIOLATION")) => simplified_report.status = "VIOLATION"

\* C3 witness: resolved for a report of status VIOLATION with no issue, and no
\* trigger in any summary or in raw_details
C3_Witness ==
    /\ Resolved
    /\ StatusIs("VIOLATION")
    /\ DOMAIN Fields = RecognizedFields
    /\ Len(DomainIssues(Fields, "hipaa")) = 0 /\ Len(DomainIssues(Fields, "fda")) = 0
    /\ ~DomainHasTrigger(Fields, "hipaa") /\ ~DomainHasTrigger(Fields, "fda")
    /\ ~RawHasTrigger(Fields)
    /\ simplified_report.status = "VIOLATION"

\* C4: a report whose status is WARNING resolves to VIOLATION if a severity
\* trigger occurs, in any letter case, in a text of raw_details, and to WARNING
\* otherwise: never to OK, and a trigger outside raw_details does not escalate.
C4_WarningEscalation ==
    (Resolved /\ StatusIs("WARNING")) =>
        simplified_report.status =
            IF /\ "raw_details" \in DOMAIN Fields
               /\ \E t \in FlattenRaw(Fields.raw_details) :
                     \E trig \in SeverityTriggers : OccursFolded(trig, t)
            THEN "VIOLATION"
            ELSE "WARNING"

\* C4 witness: a WARNING report escalated by an upper-case trigger nested in
\* raw_details while no issue or summary holds a trigger
C4_Witness ==
    /\ Resolved
    /\ StatusIs("WARNING")
    /\ "raw_details" \in DOMAIN Fields
    /\ TxtBreachUpper \in FlattenRaw(Fields.raw_details)
    /\ ~DomainHasTrigger(Fields, "hipaa") /\ ~DomainHasTrigger(Fields, "fda")
    /\ simplified_report.status = "VIOLATION"

\* C5 as claimed: with the status absent or unrecognized (and the report not
\* malformed) the status is VIOLATION if an issue text of either domain holds
\* a trigger, else WARNING if the hipaa or fda issue list is non-empty, else
\* OK with suggestions ["No action required."]; the first case that applies
\* wins.
C5_DerivationAsClaimed ==
    (Resolved /\ IsMap /\ ~IsMalformed(synthesized_report)
              /\ ~(\E st \in VerdictStatuses : StatusIs(st))) =>
        LET trigger == DomainHasTriggerInIssues(Fields, "hipaa")
                       \/ DomainHasTriggerInIssues(Fields, "fda")
            issues == Len(DomainIssues(Fields, "hipaa")) > 0
                      \/ Len(DomainIssues(Fields, "fda")) > 0
        IN /\ trigger => simplified_report.status = "VIOLATION"
           /\ (~trigger /\ issues) => simplified_report.status = "WARNING"
           /\ (~trigger /\ ~issues) =>
                 /\ simplified_report.status = "OK"
                 /\ Len(simplified_report.suggestions) = 1
                 /\ simplified_report.suggestions[1].text = "No action required."

\* C6: the guard comes first: an absent or malformed input resolves to the
\* fallback WARNING verdict even when its payload holds trigger text or the
\* text VIOLATION; it never resolves to VIOLATION or OK.
C6_GuardPrecedence ==
    (Resolved /\ (~IsMap \/ (DOMAIN Fields) \cap RecognizedFields = {})) =>
        /\ simplified_report = FallbackVerdict
        /\ simplified_report.status \notin {"VIOLATION", "OK"}

\* C6 witness: resolved to WARNING for a bare text that reads VIOLATION, which
\* holds the trigger "violation"
C6_Witness ==
    /\ Resolved
    /\ synthesized_report.tag = "text"
    /\ synthesized_report.text = TxtViolationWord
    /\ HasTrigger(synthesized_report.text)
    /\ simplified_report.status = "WARNING"

\* C7: a mapping with none of the keys status, hipaa, fda, recommendations,
\* raw_details (the empty mapping among them) resolves to the fallback WARNING
\* verdict.
C7_NoRecognizedField ==
    (Resolved /\ IsMap /\ \A k \in RecognizedFields : k \notin DOMAIN Fields) =>
        /\ simplified_report.status = "WARNING"
        /\ simplified_report.reason = FallbackVerdict.reason
        /\ simplified_report.suggestions = FallbackVerdict.suggestions

\* C7 witness: resolved for the empty mapping
C7_Witness ==
    /\ Resolved
    /\ IsMap
    /\ DOMAIN Fields = {}
    /\ simplified_report.status = "WARNING"

\* C8 as claimed: a report whose status is OK always resolves to status OK,
\* reason "No HIPAA or FDA issues detected in the synthesized report." and
\* suggestions ["No action required."].
C8_StatusOkAsClaimed ==
    (Resolved /\ StatusIs("OK")) =>
        /\ simplified_report.status = "OK"
        /\ simplified_report.reason.text =
             "No HIPAA or FDA issues detected in the synthesized report."
        /\ Len(simplified_report.suggestions) = 1
        /\ simplified_report.suggestions[1].text = "No action required."

\* the report is the fallback verdict, fed back as a synthesized report
FedBackFallback ==
    /\ IsMap
    /\ DOMAIN Fields = {"status", "reason", "suggestions"}
    /\ \E v \in Resolve(Absent) :
          /\ Fields.status = v.status
          /\ Fields.reason = v.reason
          /\ Fields.suggestions = v.suggestions

\* C9 as claimed: the resolver applied to the fallback verdict returns the same
\* verdict: resolve(resolve(absent)) = resolve(absent), field by field.
C9_IdempotentAsClaimed ==
    (Resolved /\ FedBackFallback) =>
        \E v \in Resolve(Absent) :
            /\ simplified_report.status = v.status
            /\ simplified_report.reason = v.reason
            /\ simplified_report.suggestions = v.suggestions

\* C9 amended: the resolver applied to the fallback verdict returns status
\* WARNING again, with one suggestion; the rules fix no reason or suggestion
\* text for it.
C9_FedBackStatus ==
    (Resolved /\ FedBackFallback) =>
        /\ simplified_report.status = "WARNING"
        /\ \A v \in Resolve(Absent) : simplified_report.status = v.status
        /\ Len(simplified_report.suggestions) = 1

\* C9 witness: resolved for the fed-back fallback verdict
C9_Witness ==
    /\ Resolved
    /\ FedBackFallback
    /\ simplified_report.status = "WARNING"

TheReason == simplified_report.reason

\* the reason is the top entry of the recommendations list supplied
ReasonIsTopRecommendation ==
    /\ Len(Recommendations(Fields)) > 0
    /\ TheReason.kind = "recommendation"
    /\ TheReason.item = [tag |-> "text", text |-> Recommendations(Fields)[1]]

\* the severities, in the reading C, of the issues of domain d that hold a
\* trigger
TriggerSeverities(C, d) ==
    { C[k].severity : k \in { j \in 1..Len(C) : C[j].domain = d /\ C[j].trigger } }

Highest(S) == CHOOSE m \in S : \A x \in S : x <= m

\* in the reading C the most severe trigger issue of HIPAA and that of FDA are
\* equally severe
TieIn(C) ==
    /\ TriggerSeverities(C, "HIPAA") # {} /\ TriggerSeverities(C, "FDA") # {}
    /\ Highest(TriggerSeverities(C, "HIPAA")) = Highest(TriggerSeverities(C, "FDA"))

\* the top trigger issues of the two domains are equally severe, however an
\* entry that states no severity is read
TopTriggersTie ==
    /\ IsMap /\ ~IsMalformed(synthesized_report)
    /\ \A C \in Readings(Candidates(Fields)) : TieIn(C)

\* the reason is the most severe trigger issue of HIPAA and names HIPAA
ReasonIsTopHipaaIssue ==
    /\ TheReason.kind = "issue"
    /\ TheReason.domain = "HIPAA"
    /\ \E C \in Readings(Candidates(Fields)) : \E k \in 1..Len(C) :
          /\ C[k].domain = "HIPAA" /\ C[k].trigger
          /\ C[k].issue = TheReason.item
          /\ C[k].severity = Highest(TriggerSeverities(C, "HIPAA"))

----------------------------------------------------------------------------
(* The primary reason *)

\* the resolver gave a status other than OK to a report it could read
NotOk ==
    /\ Resolved /\ IsMap /\ ~IsMalformed(synthesized_report)
    /\ simplified_report.status # "OK"

IssuesOfBoth == Candidates(Fields)

\* the reason r follows the order: trigger issue, issue, recommendation
ClaimedPreferenceHolds(C, r) ==
    /\ AnyTrigger(C) => r.kind = "issue" /\ IssueHasTrigger(r.item)
    /\ Len(C) > 0 => r.kind = "issue"
    /\ r.kind = "recommendation" => Len(C) = 0

RecommendationCase(C, recs) == Len(C) > 1 /\ Len(recs) > 0

\* the reason r follows the order: trigger issue, issue, recommendation,
\* outside the recommendation case, in which it may be the recommendation
PreferenceHolds(C, recs, r) ==
    /\ AnyTrigger(C) =>
          \/ r.kind = "issue" /\ IssueHasTrigger(r.item)
          \/ RecommendationCase(C, recs) /\ r.kind = "recommendation"
    /\ (Len(C) > 0 /\ ~RecommendationCase(C, recs)) => r.kind = "issue"
    /\ r.kind = "recommendation" => (Len(C) = 0 \/ RecommendationCase(C, recs))

OnlyDomainWithTrigger(key, other) ==
    /\ Resolved /\ IsMap /\ ~IsMalformed(synthesized_report)
    /\ "status" \notin DOMAIN Fields
    /\ \E i \in 1..Len(DomainIssues(Fields, key)) :
          IssueHasTrigger(DomainIssues(Fields, key)[i])
    /\ Len(DomainIssues(Fields, other)) = 0

\* the reason names the domain and one of its issues that holds a trigger
ReasonNames(name, key) ==
    /\ TheReason.kind = "issue"
    /\ TheReason.domain = name
    /\ \E i \in 1..Len(DomainIssues(Fields, key)) :
          TheReason.item = DomainIssues(Fields, key)[i]
    /\ IssueHasTrigger(TheReason.item)

RecommendationNamed(key) ==
    /\ Len(DomainIssues(Fields, key)) > 1
    /\ ReasonIsTopRecommendation

----------------------------------------------------------------------------
(* Properties of the run of ghost_coordinator *)

Started(a) == agent_state[a] # "idle"
Ended(a) == agent_state[a] = "done"

\* C13: in every run the HIPAA aggregator (hipaa_summary) starts only after the
\* three HIPAA specialists have ended, the FDA aggregator (fda_summary) only
\* after both FDA specialists have ended, the synthesizer only after both
\* aggregators have ended, and the resolver only after the synthesizer has
\* ended; nothing else orders the specialists and the two domains.
C13_StageOrder ==
    /\ Started("hipaa_summary") =>
          /\ Ended("hipaa_privacy_agent")
          /\ Ended("hipaa_security_agent")
          /\ Ended("hipaa_breach_agent")
    /\ Started("fda_summary") =>
          Ended("part11_records_agent") /\ Ended("part11_signatures_agent")
    /\ Started("ghost_synthesizer") => Ended("hipaa_summary") /\ Ended("fda_summary")
    /\ Started("ghost_simplifier") => Ended("ghost_synthesizer")

\* C13 witness: the domains interleave and the specialists end in an order
\* other than the listed one: the FDA aggregator is running, its specialists
\* having ended in reverse order, while the HIPAA breach specialist has ended
\* before the privacy specialist has started and the HIPAA aggregator waits
C13_Witness ==
    /\ agent_state["fda_summary"] = "running"
    /\ arrived["fda"] = << "part11_signatures_agent", "part11_records_agent" >>
    /\ arrived["hipaa"] = << "hipaa_breach_agent" >>
    /\ agent_state["hipaa_security_agent"] = "running"
    /\ ~Started("hipaa_privacy_agent")
    /\ ~Started("hipaa_summary")

\* both aggregators, the synthesizer and the resolver have run and the
\* session holds a verdict
VerdictProduced ==
    /\ \A a \in Agents : Ended(a)
    /\ DOMAIN simplified_report = {"status", "reason", "suggestions"}
    /\ simplified_report.status \in VerdictStatuses
    /\ Len(simplified_report.suggestions) = 1

\* the failure of a producer ended the run
ProducerEndedRun == \E a \in Specialists : agent_state[a] = "raised"

\* an exception left an aggregator, the synthesizer or the resolver
LaterStageRaised == \E a \in Agents \ Specialists : agent_state[a] = "raised"

\* C14 as claimed: in every run, whichever of the five specialists fail, both
\* aggregators, the synthesizer and the resolver eventually run and a verdict
\* is eventually produced; a failing producer never ends the run. (Runs in
\* which a later stage itself fails are set aside.)
C14_ProgressAsClaimed ==
    ([]~LaterStageRaised) => (<>VerdictProduced /\ []~ProducerEndedRun)

----------------------------------------------------------------------------
(* Properties of the specialists' tools *)

Called == tool_call # NoCall

\* the dictionary of a call that succeeded, for the argument q
SuccessShape(d, q) ==
    /\ DOMAIN d = {"result", "stats", "additional_info"}
    /\ DOMAIN d.stats = {"query_length", "analysis_timestamp"}
    /\ DOMAIN d.additional_info = {"collected_at", "data_format", "analysis_type"}
    /\ d.result.user_query = q
    /\ d.stats.query_length = PyLen(q)
    /\ d.stats.analysis_timestamp \in Clock
    /\ d.additional_info.collected_at \in Clock
    /\ d.additional_info.data_format = "dict"

\* the dictionary of a call that failed inside the tool
ErrorShape(d, name) ==
    /\ DOMAIN d = {"result", "stats", "additional_info"}
    /\ DOMAIN d.result = {"error"}
    /\ d.result.error[1] = name /\ d.result.error[2] = " failed: "
    /\ DOMAIN d.stats = {"success"}
    /\ d.stats.success = FALSE
    /\ DOMAIN d.additional_info = {"error_type"}
    /\ d.additional_info.error_type = "TypeError"

\* C15: none of scan_privacy, get_security_findings, assess_breach,
\* scan_records, scan_signatures raises: for every argument the call returns
\* the success shape, or the error shape when an exception arose inside it.
C15_ToolsNeverRaise ==
    Called =>
        /\ tool_call.outcome.kind = "return"
        /\ IF HasLen(tool_call.user_query)
           THEN SuccessShape(tool_call.outcome.value, tool_call.user_query)
           ELSE ErrorShape(tool_call.outcome.value, tool_call.name)

\* C15 witness: scan_records called with None returned the error shape
C15_Witness ==
    /\ Called
    /\ tool_call.name = "scan_records"
    /\ tool_call.user_query = PyNone
    /\ tool_call.outcome.kind = "return"
    /\ ErrorShape(tool_call.outcome.value, "scan_records")

----------------------------------------------------------------------------
(* Properties of call_agent_async *)

\* C16 as stated: call_agent_async never raises to its caller, neither while
\* the events of the run are streamed nor while the final response is recorded
\* in the history, also when every retry of the history update fails; it
\* returns the final response text or None.
C16_NeverRaisesAsClaimed ==
    /\ call_pc # "raised"
    /\ call_pc = "returned" =>
          call_result = PyNone \/ call_result = final_response_text

\* the responses recorded in the history by add_agent_response_to_history
RecordedResponses ==
    { HistoryOf(session_state)[i].response :
        i \in { j \in 1..Len(HistoryOf(session_state)) :
                  HistoryOf(session_state)[j].action = TxtAgentResponse } }

\* C17 as stated: what call_agent_async returns and records in the history is
\* the verdict of ghost_simplifier or nothing; the output of a specialist, an
\* aggregator or the synthesizer is never delivered, also when the run fails
\* after some stages have emitted their final responses.
C17_VerdictOrNothingAsClaimed ==
    /\ call_pc = "returned" =>
          call_result = PyNone \/ call_result = ResponseOf("ghost_simplifier")
    /\ RecordedResponses \subseteq { ResponseOf("ghost_simplifier").text }

----------------------------------------------------------------------------
(* Properties of the gather stage *)

\* C18 as stated: the issue list of a domain report follows the listed order
\* of the specialists (privacy, security, breach; records, signatures) for
\* every order in which they end, so that runs that differ in that order only
\* yield the same list.
C18_StableOrderAsClaimed ==
    \A d \in Domains :
        Ended(SummaryAgent(d)) =>
            merged[d].issues.items = IssuesInOrder(SubAgents(d), state)

\* the keys a running specialist reads or writes
KeysOf(a) == ReadKeys(a) \cup { OutputKey(a) }

\* a step writes the key k
Writes(k) == state'[k] # state[k]

\* C19: the five specialists write five pairwise distinct keys of the session
\* state (hipaa_privacy, hipaa_security, hipaa_breach, part11_records,
\* part11_signatures), and no step of a task that runs while a specialist is
\* running writes a key that this specialist reads or writes.
C19_NoWriteContention ==
    /\ { OutputKey(a) : a \in Specialists } =
          {"hipaa_privacy", "hipaa_security", "hipaa_breach",
           "part11_records", "part11_signatures"}
    /\ \A a, b \in Specialists : a # b => OutputKey(a) # OutputKey(b)
    /\ [][ /\ \A k \in StateKeys : \A a \in Specialists :
                (Writes(k) /\ agent_state[a] = "running" /\ state'[k].by # a)
                    => k \notin KeysOf(a)
           /\ \A a \in Specialists :
                agent_state[a] = "running" =>
                    /\ synthesized_report' = synthesized_report
                    /\ simplified_report' = simplified_report ]_vars

\* C19 witness: hipaa_privacy_agent has written its key while a specialist of
\* its own domain, one of the other domain and the other domain's summary
\* agent were still to end
C19_Witness ==
    /\ state["hipaa_privacy"] # Unset
    /\ state["hipaa_privacy"].by = "hipaa_privacy_agent"
    /\ agent_state["hipaa_security_agent"] = "running"
    /\ agent_state["part11_records_agent"] = "running"
    /\ state["part11_signatures"] # Unset
    /\ state["hipaa_security"] = Unset

----------------------------------------------------------------------------
(* Properties of the interaction history *)

TheHistory == HistoryOf(session_state)

\* the composite key of an entry: action, timestamp, and query or else id
CompositeKey(e) ==
    << Get(e, "action", <<>>), Get(e, "timestamp", <<>>),
       Get(e, "query", Get(e, "course_id", <<>>)) >>

\* an entry of the history h has the composite key of e
KeyIn(h, e) == \E i \in 1..Len(h) : CompositeKey(h[i]) = CompositeKey(e)

\* C20: from an empty history, after any sequence of calls of
\* update_interaction_history no two entries have the same composite key
\* (action, timestamp, query-or-id), and a call that returns has appended its
\* entry if and only if no existing entry had that key.
C20_Dedup ==
    /\ [](\A i, j \in 1..Len(HistoryOf(session_state)) :
             CompositeKey(HistoryOf(session_state)[i])
                = CompositeKey(HistoryOf(session_state)[j]) => i = j)
    /\ [][(update.pc = "writing" /\ update'.pc = "returned") =>
            /\ ~KeyIn(HistoryOf(session_state), update.entry) =>
                  HistoryOf(session_state') = Append(HistoryOf(session_state), update.entry)
            /\ KeyIn(HistoryOf(session_state), update.entry) =>
                  HistoryOf(session_state') = HistoryOf(session_state)]_vars

\* C20 witness: a call returned whose entry, with a course_id, has the key of
\* the one entry of the history, which has a query: it was not appended
C20_Witness ==
    /\ update.pc = "returned"
    /\ Len(HistoryOf(session_state)) = 1
    /\ "course_id" \in DOMAIN update.entry
    /\ "query" \in DOMAIN HistoryOf(session_state)[1]
    /\ CompositeKey(HistoryOf(session_state)[1]) = CompositeKey(update.entry)

----------------------------------------------------------------------------
(* Properties of atomic_update_session *)

CallRunning(p) == caller[p].pc \in {"get", "create"}
CallEnded(p) == caller[p].pc \in {"returned", "raised"}

\* what holds of a call at every moment: the attempts are bounded, the only
\* write is the one of the attempt after which the call returned, and the
\* call raised RuntimeError exactly when max_retries attempts failed
BoundedRetry(c) ==
    /\ c.attempt <= max_retries
    /\ c.failed <= max_retries
    /\ c.writes = (IF c.pc = "returned" THEN 1 ELSE 0)
    /\ c.pc = "returned" => c.failed = c.attempt - 1 /\ c.result = Returned(PyNone)
    /\ c.pc \in {"get", "create"} => c.failed = c.attempt - 1
    /\ (c.pc = "raised") <=> (c.failed = max_retries)
    /\ c.pc = "raised" =>
          /\ c.attempt = max_retries
          /\ c.result = RuntimeError(max_retries, c.last_exception)

\* C21: atomic_update_session always terminates; it makes at most
\* max_retries attempts, returns after the first attempt that succeeds and
\* then makes no further attempt or write, and raises RuntimeError if and
\* only if all max_retries attempts failed.
C21_BoundedRetry ==
    /\ [](\A p \in Callers : BoundedRetry(caller[p]))
    /\ [][\A p \in Callers : CallEnded(p) => caller'[p] = caller[p]]_vars
    /\ \A p \in Callers : CallRunning(p) ~> CallEnded(p)

\* one call returned after failed attempts, the other raised after
\* max_retries failed attempts
C21_Witness ==
    /\ caller["first"].pc = "returned" /\ caller["first"].failed > 1
    /\ caller["second"].pc = "raised" /\ caller["second"].failed = max_retries

\* C22 as stated: when calls of atomic_update_session on the same session
\* interleave, the state of the session reflects every patch whose call
\* returned: the entry of each update_interaction_history call that returned
\* is in interaction_history (no lost update).
C22_NoLostUpdateAsClaimed ==
    \A p \in Callers :
        caller[p].pc = "returned" /\ caller[p].patch.kind = "history" =>
            \E i \in 1..Len(TheHistory) : TheHistory[i] = caller[p].patch.entry

----------------------------------------------------------------------------
(* Properties of the resolver: invalid domains and summaries *)

DomainKeys == {"hipaa", "fda"}
NameOf(key) == IF key = "hipaa" THEN "HIPAA" ELSE "FDA"

\* the domain is absent from the report, or is no report, or its issues are
\* no list, or an entry of its issues is no mapping
NoData(f, key) == key \notin DOMAIN f \/ ~WellFormedDomain(f[key])

\* the report without the domain
Without(f, key) == [k \in (DOMAIN f) \ {key} |-> f[k]]

\* the statuses the report without the domain may be given
StatusesWithout(f, key) == ResolveStatus(Without(f, key))

\* C23 as claimed: when the input is a mapping whose hipaa or fda field is
\* absent or structurally invalid (not a report, issues that are no list, an
\* issue entry that is no mapping), the resolver gives a verdict, the domain
\* contributes nothing, the status is the one derived from the rest of the
\* report, and no issue of that domain is the reason.
C23_DomainToleranceAsClaimed ==
    (Resolved /\ IsMap /\ ~IsMalformed(synthesized_report)) =>
        \A key \in DomainKeys :
           NoData(Fields, key) =>
              /\ simplified_report.status \in VerdictStatuses
              /\ simplified_report.status \in StatusesWithout(Fields, key)
              /\ simplified_report.reason.kind = "issue" =>
                    simplified_report.reason.domain # NameOf(key)

\* none of the texts in the domain holds a severity trigger and it lists no
\* issue entry of any shape
Silent(f, key) ==
    \/ key \notin DOMAIN f
    \/ /\ \A t \in FlattenRaw(f[key]) : ~HasTrigger(t)
       /\ ~(f[key].tag = "report" /\ f[key].issues.tag = "list"
               /\ Len(f[key].issues.items) > 0)

\* C23: the resolver gives a verdict for every mapping with a recognized
\* key, whatever the shape of hipaa and fda; a domain that is absent, or that
\* is structurally invalid, lists no issue entry and holds no trigger text,
\* contributes nothing: the status is the one derived from the rest of the
\* report and no issue of that domain is the reason.
C23_DomainTolerance ==
    (Resolved /\ IsMap /\ ~IsMalformed(synthesized_report)) =>
        /\ simplified_report.status \in VerdictStatuses
        /\ \A key \in DomainKeys :
              (NoData(Fields, key) /\ Silent(Fields, key)) =>
                 /\ simplified_report.status \in StatusesWithout(Fields, key)
                 /\ simplified_report.reason.kind = "issue" =>
                       simplified_report.reason.domain # NameOf(key)

\* C23 witness: no status, hipaa is a text without trigger in place of a
\* report, fda has an issue without trigger: the verdict is WARNING for the
\* FDA issue
C23_Witness ==
    /\ Resolved /\ IsMap
    /\ "status" \notin DOMAIN Fields
    /\ "hipaa" \in DOMAIN Fields
    /\ Fields.hipaa = [tag |-> "text", text |-> TxtBenign]
    /\ "fda" \in DOMAIN Fields /\ WellFormedDomain(Fields.fda)
    /\ Len(Fields.fda.issues.items) = 1
    /\ simplified_report.status = "WARNING"
    /\ simplified_report.reason.kind = "issue"
    /\ simplified_report.reason.domain = "FDA"

\* the summary of the domain holds a severity trigger
SummaryHasTrigger(f, key) ==
    key \in DOMAIN f /\ f[key].tag = "report" /\ HasTrigger(f[key].summary)

\* C24 as claimed: with the status absent, a severity trigger in the summary of
\* a domain makes the status VIOLATION, also when the issue lists of both
\* domains are empty: the scan for triggers covers the summaries and comes
\* before the test for issues.
C24_SummaryTriggerAsClaimed ==
    (Resolved /\ IsMap /\ "status" \notin DOMAIN Fields
              /\ \E key \in DomainKeys : SummaryHasTrigger(Fields, key)) =>
        simplified_report.status = "VIOLATION"

----------------------------------------------------------------------------
(* Properties of the hand-off between the stages *)

WrittenBy(key, a) == state[key].tag = "set" /\ state[key].by = a

\* C25 as stated: once ghost_synthesizer has started, the session state holds
\* hipaa_report written by hipaa_summary and fda_report written by
\* fda_summary; once ghost_simplifier has started, synthesized_report holds
\* what ghost_synthesizer wrote.
C25_HandOffAsClaimed ==
    /\ Started("ghost_synthesizer") =>
          /\ WrittenBy("hipaa_report", "hipaa_summary")
          /\ WrittenBy("fda_report", "fda_summary")
    /\ Started("ghost_simplifier") =>
          /\ synthesized_report # Absent
          /\ synthesized_report \in Synthesized(merged["hipaa"], merged["fda"])

----------------------------------------------------------------------------
(* Properties of the interaction history: what a call changes *)

IsPrefix(a, b) == Len(a) <= Len(b) /\ \A i \in 1..Len(a) : a[i] = b[i]

\* the call of update_interaction_history returns in this step
UpdateReturns == update.pc = "writing" /\ update'.pc = "returned"

\* C26: a call of update_interaction_history that returns leaves the previous
\* interaction_history as a prefix of the new one, longer by one entry at
\* most, and leaves every other key of the session state as it was; no other
\* step changes the session state.
C26_AppendOnly ==
    [][ /\ UpdateReturns =>
            /\ IsPrefix(TheHistory, TheHistory')
            /\ Len(TheHistory') - Len(TheHistory) \in {0, 1}
            /\ DOMAIN session_state' = DOMAIN session_state \cup {"interaction_history"}
            /\ \A k \in (DOMAIN session_state) \ {"interaction_history"} :
                  session_state'[k] = session_state[k]
        /\ ~UpdateReturns => session_state' = session_state ]_vars

\* C26 witness: a call returned with two entries in the history, the second
\* appended after the first
C26_Witness ==
    /\ update.pc = "returned"
    /\ Len(TheHistory) = 2
    /\ TheHistory[2] = update.entry
    /\ TheHistory[1] # update.entry

\* an entry as add_agent_response_to_history makes it: no query, no id
IsResponse(e) ==
    /\ Get(e, "action", <<>>) = TxtAgentResponse
    /\ "query" \notin DOMAIN e /\ "course_id" \notin DOMAIN e

\* the history holds a response with the timestamp of e
ResponseAtTimeOf(e) ==
    \E i \in 1..Len(TheHistory) :
        IsResponse(TheHistory[i]) /\ TheHistory[i].timestamp = e.timestamp

\* C27: the key of an agent_response entry is its action and timestamp: a
\* response whose timestamp is that of a response already in the history is
\* not appended, whatever its agent name and response text, so no two
\* responses of the history have the same timestamp.
C27_ResponseKey ==
    /\ [](\A i, j \in 1..Len(TheHistory) :
             (IsResponse(TheHistory[i]) /\ IsResponse(TheHistory[j])
                /\ TheHistory[i].timestamp = TheHistory[j].timestamp) => i = j)
    /\ [][(UpdateReturns /\ IsResponse(update.entry) /\ ResponseAtTimeOf(update.entry))
             => TheHistory' = TheHistory]_vars

\* C27 witness: a call with a response returned; the history holds only a
\* response of the same timestamp with another agent name and another text
C27_Witness ==
    /\ update.pc = "returned"
    /\ IsResponse(update.entry)
    /\ Len(TheHistory) = 1
    /\ IsResponse(TheHistory[1])
    /\ TheHistory[1].timestamp = update.entry.timestamp
    /\ TheHistory[1].agent # update.entry.agent
    /\ TheHistory[1].response # update.entry.response

----------------------------------------------------------------------------
(* Properties of atomic_update_session: a patch_fn that fails *)

\* patch_fn returns a non-dict, or raises, whenever it is called
PatchFails(c) == c.pc # "idle" /\ c.patch.kind \in {"none", "raise"}

\* the exceptions an attempt with such a patch_fn can end with
FailuresOf(c) ==
    { Raised("OperationalError", "get_session"),
      IF c.patch.kind = "none"
      THEN Raised("ValueError", "patch_fn must return dict")
      ELSE ApplyPatch(c.patch, InitialState) }

\* C28: when patch_fn returns a non-dict or raises on every attempt, the call
\* never reaches create_session and never writes; each failure, ValueError
\* among them, is followed by the next attempt; the call raises RuntimeError
\* after exactly max_retries attempts, and the stored state is the one from
\* before the call unless another call wrote.
C28_FailureLeavesState ==
    /\ [](\A p \in Callers :
            PatchFails(caller[p]) =>
               /\ caller[p].writes = 0
               /\ caller[p].pc \in {"get", "raised"}
               /\ caller[p].failed > 0 => caller[p].last_exception \in FailuresOf(caller[p])
               /\ caller[p].pc = "get" => caller[p].attempt = caller[p].failed + 1
               /\ caller[p].pc = "raised" =>
                     /\ caller[p].attempt = max_retries
                     /\ caller[p].failed = max_retries
                     /\ caller[p].result =
                           RuntimeError(max_retries, caller[p].last_exception)
               /\ (\A q \in Callers \ {p} : caller[q].writes = 0) =>
                     session_state = caller[p].before)
    /\ [][\A p \in Callers :
            (PatchFails(caller[p]) /\ caller'[p] # caller[p]) =>
                session_state' = session_state]_vars

\* C28 witness: the call whose patch_fn returns None raised RuntimeError after
\* max_retries attempts, the last of which ended with ValueError; the history
\* written by the other call before it is still stored
C28_Witness ==
    /\ caller["second"].pc = "raised"
    /\ caller["second"].patch = ReturnsNone
    /\ caller["second"].failed = max_retries
    /\ caller["second"].last_exception = Raised("ValueError", "patch_fn must return dict")
    /\ Len(HistoryOf(caller["second"].before)) = 1
    /\ session_state = caller["second"].before

====
